---- MODULE Spec2Model ----
(***************************************************************************)
(* Model of market_core.py: the TTL snapshot cache (fetch_market_data,     *)
(* clear_cache), the risk scorer (compute_risk_signal) and the pair signal *)
(* engine (calculate_pair_trading_signals).                                *)
(*                                                                         *)
(* Numbers.  Prices, levels and percentages are Python floats.  They are   *)
(* modelled as fixed-point integers in hundredths: a level of 28.00 is     *)
(* 2800, a change of -3.5 % is -350.  Every threshold of the source is     *)
(* written in the same unit (3.0 -> 300, 0.5 -> 50, 110 -> 11000).         *)
(* Time is in whole seconds.                                               *)
(*                                                                         *)
(* Strings.  The Korean status words are written in English:               *)
(*   "stable" = 안정, "up" = 상승, "down" = 하락, "error" = 오류,            *)
(* and the risk levels "high" = 높음, "medium" = 중간, "low" = 낮음.         *)
(***************************************************************************)
EXTENDS Integers, Sequences, FiniteSets, TLC

(***************************************************************************)
(* Bounds of the model.                                                    *)
(***************************************************************************)
\* number of concurrent callers (threads of the bot / the web app)
NumCallers == 2
\* number of Telegram users that write to the bot
NumUsers == 2
\* the clock advances in steps of TimeStep seconds up to MaxTime
TimeStep == 30
MaxTime == 90
\* at most MaxOdd instruments answer differently from the rest of the feed
MaxOdd == 2
\* a scored snapshot is a base snapshot changed in at most MaxEdits entries
MaxEdits == 2
\* how many feed requests of one refresh are made in one step of the model
Stride == 6
\* the largest max_retries of a RetryConfig
MaxRetries == 3

(***************************************************************************)
(* The instrument catalog, market_core.py:21-34.                           *)
(***************************************************************************)
\* declaration order of the dict (the iteration order of TICKER_MAP.items())
TICKER_ORDER ==
    << "gold", "silver", "copper", "dxy", "us10y", "btc",
       "krwjpy", "krwusd", "usdjpy", "spx", "ndx", "vix" >>

Keys == { TICKER_ORDER[i] : i \in 1..Len(TICKER_ORDER) }

TICKER_MAP ==
    [ gold   |-> [symbol |-> "GC=F",     name |-> "Gold",        ticker |-> "XAU/USD"],
      silver |-> [symbol |-> "SI=F",     name |-> "Silver",      ticker |-> "XAG/USD"],
      copper |-> [symbol |-> "HG=F",     name |-> "Copper",      ticker |-> "HG/USD"],
      dxy    |-> [symbol |-> "DX-Y.NYB", name |-> "DXY",         ticker |-> "DXY"],
      us10y  |-> [symbol |-> "^TNX",     name |-> "US10Y",       ticker |-> "US10Y"],
      btc    |-> [symbol |-> "BTC-USD",  name |-> "Bitcoin",     ticker |-> "BTC/USD"],
      krwjpy |-> [symbol |-> "KRWJPY=X", name |-> "KRW/JPY",     ticker |-> "KRW/JPY"],
      krwusd |-> [symbol |-> "KRW=X",    name |-> "USD/KRW",     ticker |-> "USD/KRW"],
      usdjpy |-> [symbol |-> "JPY=X",    name |-> "USD/JPY",     ticker |-> "USD/JPY"],
      spx    |-> [symbol |-> "^GSPC",    name |-> "S&P 500",     ticker |-> "S&P 500"],
      ndx    |-> [symbol |-> "^NDX",     name |-> "NASDAQ 100",  ticker |-> "NASDAQ 100"],
      vix    |-> [symbol |-> "^VIX",     name |-> "VIX",         ticker |-> "VIX"] ]

CACHE_TTL == 60

get_unit(symbol) ==
    IF symbol \in {"^TNX"} THEN "percentage"
    ELSE IF symbol \in {"DX-Y.NYB", "^SKEW", "^VIX", "^GSPC"} THEN "points"
    ELSE "currency"

\* The rendered string, as <<prefix, number with two decimals, suffix>>.  The
\* value is already a number of hundredths, so ".2f" prints it exactly.
format_value(value, unit) ==
    IF unit = "percentage" THEN << "", value, "%" >>
    ELSE IF unit = "points" THEN << "", value, "" >>
    ELSE << "$", value, "" >>

Abs(x) == IF x < 0 THEN -x ELSE x

(***************************************************************************)
(* One iteration of the loop of fetch_market_data, market_core.py:78-116.  *)
(* The answer of the feed for one symbol is a record: raised = TRUE when   *)
(* yf.Ticker, the history call or the parsing raised, and otherwise close  *)
(* is the sequence hist['Close'], oldest first.  Closes are positive, and  *)
(* the feeds of the model are chosen so that the percentage is a whole     *)
(* number of hundredths.                                                   *)
(***************************************************************************)
\* lines 106-116: the except branch
ErrorEntry(key) ==
    [ id |-> key,
      name |-> TICKER_MAP[key].name,
      ticker |-> TICKER_MAP[key].ticker,
      current_value |-> 0,
      previous_value |-> 0,
      change_pct |-> 0,
      unit |-> get_unit(TICKER_MAP[key].symbol),
      status |-> "error",
      formatted_value |-> << "N/A" >> ]

\* PricesOf with the previous close taken from the first row (iloc[0])
\* instead of the row before the last (iloc[-2])
PricesOfFirstRow(hist) ==
    LET n == Len(hist) IN
    IF n >= 2
    THEN [ current_price |-> hist[n],
           previous_price |-> hist[1],
           change_pct |-> ((hist[n] - hist[1]) * 10000) \div hist[1] ]
    ELSE LET current_price == IF n # 0 THEN hist[n] ELSE 0 IN
         [ current_price |-> current_price,
           previous_price |-> current_price,
           change_pct |-> 0 ]

\* lines 82-89: the prices taken from the history
PricesOf(hist) ==
    LET n == Len(hist) IN
    IF n >= 2
    THEN [ current_price |-> hist[n],
           previous_price |-> hist[n - 1],
           change_pct |-> ((hist[n] - hist[n - 1]) * 10000) \div hist[n - 1] ]
    ELSE LET current_price == IF n # 0 THEN hist[n] ELSE 0 IN
         [ current_price |-> current_price,
           previous_price |-> current_price,
           change_pct |-> 0 ]

\* line 92
StatusOf(change_pct) ==
    IF Abs(change_pct) < 100 THEN "stable"
    ELSE IF change_pct > 0 THEN "up" ELSE "down"

\* lines 82-104: the try branch
HistEntry(key, hist) ==
    LET p == PricesOf(hist)
        unit == get_unit(TICKER_MAP[key].symbol) IN
    [ id |-> key,
      name |-> TICKER_MAP[key].name,
      ticker |-> TICKER_MAP[key].ticker,
      current_value |-> p.current_price,
      previous_value |-> p.previous_price,
      change_pct |-> p.change_pct,
      unit |-> unit,
      status |-> StatusOf(p.change_pct),
      formatted_value |-> format_value(p.current_price, unit) ]

\* FetchEntry without the `if not hist.empty' of line 87: iloc[-1] on an empty
\* history raises, and the except branch builds the entry
FetchEntryNoEmptyGuard(key, answer) ==
    IF answer.raised \/ answer.close = << >>
    THEN ErrorEntry(key)
    ELSE HistEntry(key, answer.close)

\* lines 78-116: try / except for one instrument
FetchEntry(key, answer) ==
    IF answer.raised THEN ErrorEntry(key) ELSE HistEntry(key, answer.close)

\* FetchLoop with the try around the loop instead of inside it: the first
\* failing request ends the batch
RECURSIVE FetchLoopAbort(_, _, _)
FetchLoopAbort(answers, i, data) ==
    IF i > Len(TICKER_ORDER) THEN data
    ELSE IF answers[TICKER_ORDER[i]].raised
    THEN Append(data, ErrorEntry(TICKER_ORDER[i]))
    ELSE FetchLoopAbort(answers, i + 1,
                        Append(data, HistEntry(TICKER_ORDER[i],
                                               answers[TICKER_ORDER[i]].close)))

\* FetchLoop that leaves a failed instrument out of the list instead of
\* appending its error entry
RECURSIVE FetchLoopSkipFailed(_, _, _)
FetchLoopSkipFailed(answers, i, data) ==
    IF i > Len(TICKER_ORDER) THEN data
    ELSE IF answers[TICKER_ORDER[i]].raised
    THEN FetchLoopSkipFailed(answers, i + 1, data)
    ELSE FetchLoopSkipFailed(answers, i + 1,
                             Append(data, HistEntry(TICKER_ORDER[i],
                                                    answers[TICKER_ORDER[i]].close)))

\* lines 76-116: data = [] and one append per catalog entry, in order
RECURSIVE FetchLoop(_, _, _)
FetchLoop(answers, i, data) ==
    IF i > Len(TICKER_ORDER) THEN data
    ELSE FetchLoop(answers, i + 1,
                   Append(data, FetchEntry(TICKER_ORDER[i], answers[TICKER_ORDER[i]])))

\* lines 76-116, the iterations i .. last of the loop only: the local list
\* while the requests for the later instruments are still to be made
RECURSIVE FetchPart(_, _, _, _)
FetchPart(answers, i, last, data) ==
    IF i > last \/ i > Len(TICKER_ORDER) THEN data
    ELSE FetchPart(answers, i + 1, last,
                   Append(data, FetchEntry(TICKER_ORDER[i], answers[TICKER_ORDER[i]])))

(***************************************************************************)
(* get_item, market_core.py:59-63: the first item of the list with that id,*)
(* or None.                                                                *)
(***************************************************************************)
NoItem == [ id |-> "None" ]

\* the place of an instrument in the catalog
CatalogIndex(key) == CHOOSE i \in 1..Len(TICKER_ORDER) : TICKER_ORDER[i] = key

\* get_item that looks only at the place the instrument has in a list that
\* fetch_market_data built, instead of scanning the list
get_itemAtCatalogIndex(items, key) ==
    LET i == CatalogIndex(key) IN
    IF i <= Len(items) /\ items[i].id = key THEN items[i] ELSE NoItem

get_item(items, key) ==
    IF \E i \in 1..Len(items) : items[i].id = key
    THEN items[CHOOSE i \in 1..Len(items) :
                 /\ items[i].id = key
                 /\ \A j \in 1..(i - 1) : items[j].id # key]
    ELSE NoItem

\* `if item:' on the result of get_item: None is false, a dict with keys is true
Found(item) == item # NoItem

(***************************************************************************)
(* compute_risk_signal, market_core.py:123-278.  The accumulator is the    *)
(* pair of locals (score, factors); a factor string is modelled by its     *)
(* label, the number printed in it and the weight printed at its end.      *)
(***************************************************************************)
\* score += weight; factors.append(f"label (value) +weight")
Fire(acc, weight, label, value) ==
    [ score |-> acc.score + weight,
      factors |-> Append(acc.factors,
                         [ label |-> label, value |-> value, weight |-> weight ]) ]

\* RuleSpx with the sign of the last threshold lost (0.5 for -0.5)
RuleSpxSignSlip(acc, items) ==
    LET spx == get_item(items, "spx") IN
    IF ~Found(spx) THEN acc
    ELSE LET spx_chg == spx.change_pct IN
         IF spx_chg < -300 THEN Fire(acc, 3, "S&P500 crash", spx_chg)
         ELSE IF spx_chg < -150 THEN Fire(acc, 2, "S&P500 fall", spx_chg)
         ELSE IF spx_chg < 50 THEN Fire(acc, 1, "S&P500 weak", spx_chg)
         ELSE acc

\* lines 128-136
RuleSpx(acc, items) ==
    LET spx == get_item(items, "spx") IN
    IF ~Found(spx) THEN acc
    ELSE LET spx_chg == spx.change_pct IN
         IF spx_chg < -300 THEN Fire(acc, 3, "S&P500 crash", spx_chg)
         ELSE IF spx_chg < -150 THEN Fire(acc, 2, "S&P500 fall", spx_chg)
         ELSE IF spx_chg < -50 THEN Fire(acc, 1, "S&P500 weak", spx_chg)
         ELSE acc

\* lines 138-146
RuleNdx(acc, items) ==
    LET ndx == get_item(items, "ndx") IN
    IF ~Found(ndx) THEN acc
    ELSE LET ndx_chg == ndx.change_pct IN
         IF ndx_chg < -300 THEN Fire(acc, 3, "Nasdaq100 crash", ndx_chg)
         ELSE IF ndx_chg < -150 THEN Fire(acc, 2, "Nasdaq100 fall", ndx_chg)
         ELSE IF ndx_chg < -50 THEN Fire(acc, 1, "Nasdaq100 weak", ndx_chg)
         ELSE acc

\* RuleDivergence on the signed difference, without abs()
RuleDivergenceNoAbs(acc, items) ==
    LET spx == get_item(items, "spx")
        ndx == get_item(items, "ndx") IN
    IF ~(Found(spx) /\ Found(ndx)) THEN acc
    ELSE LET divergence == spx.change_pct - ndx.change_pct IN
         IF divergence > 200 THEN Fire(acc, 2, "S&P-Nasdaq divergence", divergence)
         ELSE IF divergence > 100 THEN Fire(acc, 1, "index gap widening", divergence)
         ELSE acc

\* lines 148-153
RuleDivergence(acc, items) ==
    LET spx == get_item(items, "spx")
        ndx == get_item(items, "ndx") IN
    IF ~(Found(spx) /\ Found(ndx)) THEN acc
    ELSE LET divergence == Abs(spx.change_pct - ndx.change_pct) IN
         IF divergence > 200 THEN Fire(acc, 2, "S&P-Nasdaq divergence", divergence)
         ELSE IF divergence > 100 THEN Fire(acc, 1, "index gap widening", divergence)
         ELSE acc

\* RuleVix counting a snapshot without the VIX as a risk
RuleVixMissingFires(acc, items) ==
    LET vix == get_item(items, "vix") IN
    IF ~Found(vix) THEN Fire(acc, 1, "VIX somewhat high", 0)
    ELSE IF vix.current_value = 0 THEN acc
    ELSE LET vix_level == vix.current_value IN
         IF vix_level > 3500 THEN Fire(acc, 3, "VIX very high", vix_level)
         ELSE IF vix_level > 2500 THEN Fire(acc, 2, "VIX high", vix_level)
         ELSE IF vix_level > 1500 THEN Fire(acc, 1, "VIX somewhat high", vix_level)
         ELSE acc

\* lines 155-163: `vix and vix['current_value']', a level of 0 is false
RuleVix(acc, items) ==
    LET vix == get_item(items, "vix") IN
    IF ~(Found(vix) /\ vix.current_value # 0) THEN acc
    ELSE LET vix_level == vix.current_value IN
         IF vix_level > 3500 THEN Fire(acc, 3, "VIX very high", vix_level)
         ELSE IF vix_level > 2500 THEN Fire(acc, 2, "VIX high", vix_level)
         ELSE IF vix_level > 1500 THEN Fire(acc, 1, "VIX somewhat high", vix_level)
         ELSE acc

\* lines 169-172
RuleDxyChange(acc, items) ==
    LET dxy == get_item(items, "dxy") IN
    IF ~Found(dxy) THEN acc
    ELSE LET dxy_chg == dxy.change_pct IN
         IF dxy_chg > 100 THEN Fire(acc, 2, "dollar index surge", dxy_chg)
         ELSE IF dxy_chg > 50 THEN Fire(acc, 1, "dollar index rise", dxy_chg)
         ELSE acc

\* lines 173-176
RuleDxyLevel(acc, items) ==
    LET dxy == get_item(items, "dxy") IN
    IF ~Found(dxy) THEN acc
    ELSE LET dxy_level == dxy.current_value IN
         IF dxy_level > 11000 THEN Fire(acc, 2, "dollar very strong", dxy_level)
         ELSE IF dxy_level > 10500 THEN Fire(acc, 1, "dollar strong", dxy_level)
         ELSE acc

\* lines 185-188: the first `if / elif' of the FX divergence block
RuleFxStrong(acc, dxy_chg, krwjpy_chg) ==
    IF dxy_chg > 50 /\ krwjpy_chg < -100
    THEN Fire(acc, 2, "won plunges while dollar strong", krwjpy_chg)
    ELSE IF dxy_chg > 30 /\ krwjpy_chg < -50
    THEN Fire(acc, 1, "won weak while dollar strong", krwjpy_chg)
    ELSE acc

\* RuleFxWeak without its test of the dollar index
RuleFxWeakAnyDollar(acc, dxy_chg, krwjpy_chg) ==
    IF krwjpy_chg < -100
    THEN Fire(acc, 1, "won weak despite dollar weak", krwjpy_chg)
    ELSE acc

\* lines 189-190: the second `if' of the FX divergence block
RuleFxWeak(acc, dxy_chg, krwjpy_chg) ==
    IF dxy_chg < -50 /\ krwjpy_chg < -100
    THEN Fire(acc, 1, "won weak despite dollar weak", krwjpy_chg)
    ELSE acc

\* lines 178-190
RuleFxDivergence(acc, items) ==
    LET dxy == get_item(items, "dxy")
        krwusd == get_item(items, "krwusd")
        usdjpy == get_item(items, "usdjpy")
        krwjpy == get_item(items, "krwjpy") IN
    IF ~(Found(dxy) /\ Found(krwusd) /\ Found(usdjpy) /\ Found(krwjpy)) THEN acc
    ELSE RuleFxWeak(RuleFxStrong(acc, dxy.change_pct, krwjpy.change_pct),
                    dxy.change_pct, krwjpy.change_pct)

\* RuleKrwUsd with the tiers of a weakening won tested least severe first
RuleKrwUsdLeastFirst(acc, items) ==
    LET krwusd == get_item(items, "krwusd") IN
    IF ~Found(krwusd) THEN acc
    ELSE LET krwusd_chg == krwusd.change_pct IN
         IF krwusd_chg > 50 THEN Fire(acc, 1, "won down vs dollar", krwusd_chg)
         ELSE IF krwusd_chg > 100 THEN Fire(acc, 2, "won weak vs dollar", krwusd_chg)
         ELSE IF krwusd_chg > 200 THEN Fire(acc, 3, "won plunge vs dollar", krwusd_chg)
         ELSE IF krwusd_chg < -200 THEN Fire(acc, 2, "won surge vs dollar", krwusd_chg)
         ELSE IF krwusd_chg < -100 THEN Fire(acc, 1, "won strong vs dollar", krwusd_chg)
         ELSE acc

\* lines 192-203
RuleKrwUsd(acc, items) ==
    LET krwusd == get_item(items, "krwusd") IN
    IF ~Found(krwusd) THEN acc
    ELSE LET krwusd_chg == krwusd.change_pct IN
         IF krwusd_chg > 200 THEN Fire(acc, 3, "won plunge vs dollar", krwusd_chg)
         ELSE IF krwusd_chg > 100 THEN Fire(acc, 2, "won weak vs dollar", krwusd_chg)
         ELSE IF krwusd_chg > 50 THEN Fire(acc, 1, "won down vs dollar", krwusd_chg)
         ELSE IF krwusd_chg < -200 THEN Fire(acc, 2, "won surge vs dollar", krwusd_chg)
         ELSE IF krwusd_chg < -100 THEN Fire(acc, 1, "won strong vs dollar", krwusd_chg)
         ELSE acc

\* lines 205-214
RuleUsdJpy(acc, items) ==
    LET usdjpy == get_item(items, "usdjpy") IN
    IF ~Found(usdjpy) THEN acc
    ELSE LET usdjpy_chg == usdjpy.change_pct IN
         IF usdjpy_chg > 200 THEN Fire(acc, 2, "yen plunge", usdjpy_chg)
         ELSE IF usdjpy_chg > 100 THEN Fire(acc, 1, "yen weak", usdjpy_chg)
         ELSE IF usdjpy_chg < -200 THEN Fire(acc, 3, "yen surge, carry unwind", usdjpy_chg)
         ELSE IF usdjpy_chg < -100 THEN Fire(acc, 2, "yen strong", usdjpy_chg)
         ELSE acc

\* lines 216-221
RuleKrwJpy(acc, items) ==
    LET krwjpy == get_item(items, "krwjpy") IN
    IF ~Found(krwjpy) THEN acc
    ELSE LET krwjpy_chg == krwjpy.change_pct IN
         IF krwjpy_chg < -200 THEN Fire(acc, 2, "won structurally weak", krwjpy_chg)
         ELSE IF krwjpy_chg < -100 THEN Fire(acc, 1, "yen strong vs won", krwjpy_chg)
         ELSE acc

\* RuleUs10y with the first threshold written `>='
RuleUs10yGe(acc, items) ==
    LET us10y == get_item(items, "us10y") IN
    IF ~Found(us10y) THEN acc
    ELSE LET move_bp == Abs(us10y.current_value - us10y.previous_value) IN
         IF move_bp >= 20 THEN Fire(acc, 2, "US10Y sharp move", move_bp)
         ELSE IF move_bp > 10 THEN Fire(acc, 1, "US10Y move widening", move_bp)
         ELSE acc

\* lines 223-229: the values of an item are never None
RuleUs10y(acc, items) ==
    LET us10y == get_item(items, "us10y") IN
    IF ~Found(us10y) THEN acc
    ELSE LET move_bp == Abs(us10y.current_value - us10y.previous_value) IN
         IF move_bp > 20 THEN Fire(acc, 2, "US10Y sharp move", move_bp)
         ELSE IF move_bp > 10 THEN Fire(acc, 1, "US10Y move widening", move_bp)
         ELSE acc

\* lines 231-237
RuleGold(acc, items) ==
    LET gold == get_item(items, "gold") IN
    IF ~Found(gold) THEN acc
    ELSE LET gchg == gold.change_pct IN
         IF gchg > 200 THEN Fire(acc, 2, "gold strong", gchg)
         ELSE IF gchg > 100 THEN Fire(acc, 1, "gold rise", gchg)
         ELSE acc

\* lines 239-245
RuleSilver(acc, items) ==
    LET silver == get_item(items, "silver") IN
    IF ~Found(silver) THEN acc
    ELSE LET schg == silver.change_pct IN
         IF schg > 300 THEN Fire(acc, 2, "silver strong", schg)
         ELSE IF schg > 150 THEN Fire(acc, 1, "silver rise", schg)
         ELSE acc

\* lines 247-255
RuleCopper(acc, items) ==
    LET copper == get_item(items, "copper") IN
    IF ~Found(copper) THEN acc
    ELSE LET cchg == copper.change_pct IN
         IF cchg > 300 THEN Fire(acc, 2, "copper surge", cchg)
         ELSE IF cchg > 150 THEN Fire(acc, 1, "copper rise", cchg)
         ELSE IF cchg < -300 THEN Fire(acc, 1, "copper plunge", cchg)
         ELSE acc

\* lines 257-263
\* RuleBtc with weight 3 for the surge tier
RuleBtcHeavy(acc, items) ==
    LET btc == get_item(items, "btc") IN
    IF ~Found(btc) THEN acc
    ELSE LET bchg == btc.change_pct IN
         IF bchg > 600 THEN Fire(acc, 3, "BTC surge", bchg)
         ELSE IF bchg > 300 THEN Fire(acc, 1, "BTC rise", bchg)
         ELSE acc

RuleBtc(acc, items) ==
    LET btc == get_item(items, "btc") IN
    IF ~Found(btc) THEN acc
    ELSE LET bchg == btc.change_pct IN
         IF bchg > 600 THEN Fire(acc, 2, "BTC surge", bchg)
         ELSE IF bchg > 300 THEN Fire(acc, 1, "BTC rise", bchg)
         ELSE acc

\* LevelOf with the first breakpoint written `>'
LevelOfGt(score) ==
    IF score > 6 THEN [ level |-> "high", color |-> "#dc3545", emoji |-> "red circle" ]
    ELSE IF score >= 3
    THEN [ level |-> "medium", color |-> "#ffc107", emoji |-> "yellow circle" ]
    ELSE [ level |-> "low", color |-> "#28a745", emoji |-> "green circle" ]

\* lines 265-276
LevelOf(score) ==
    IF score >= 6 THEN [ level |-> "high", color |-> "#dc3545", emoji |-> "red circle" ]
    ELSE IF score >= 3
    THEN [ level |-> "medium", color |-> "#ffc107", emoji |-> "yellow circle" ]
    ELSE [ level |-> "low", color |-> "#28a745", emoji |-> "green circle" ]

\* RunRules with the VIX rule evaluated before the divergence rule
RunRulesVixFirst(items) ==
    LET a0 == [ score |-> 0, factors |-> << >> ]
        a1 == RuleSpx(a0, items)
        a2 == RuleNdx(a1, items)
        a3 == RuleVix(a2, items)
        a4 == RuleDivergence(a3, items)
        a5 == RuleDxyChange(a4, items)
        a6 == RuleDxyLevel(a5, items)
        a7 == RuleFxDivergence(a6, items)
        a8 == RuleKrwUsd(a7, items)
        a9 == RuleUsdJpy(a8, items)
        a10 == RuleKrwJpy(a9, items)
        a11 == RuleUs10y(a10, items)
        a12 == RuleGold(a11, items)
        a13 == RuleSilver(a12, items)
        a14 == RuleCopper(a13, items)
    IN  RuleBtc(a14, items)

\* lines 125-263: the rules in the order of the source
RunRules(items) ==
    LET a0 == [ score |-> 0, factors |-> << >> ]
        a1 == RuleSpx(a0, items)
        a2 == RuleNdx(a1, items)
        a3 == RuleDivergence(a2, items)
        a4 == RuleVix(a3, items)
        a5 == RuleDxyChange(a4, items)
        a6 == RuleDxyLevel(a5, items)
        a7 == RuleFxDivergence(a6, items)
        a8 == RuleKrwUsd(a7, items)
        a9 == RuleUsdJpy(a8, items)
        a10 == RuleKrwJpy(a9, items)
        a11 == RuleUs10y(a10, items)
        a12 == RuleGold(a11, items)
        a13 == RuleSilver(a12, items)
        a14 == RuleCopper(a13, items)
    IN  RuleBtc(a14, items)

compute_risk_signal(market_data) ==
    LET acc == RunRules(market_data)
        lv == LevelOf(acc.score) IN
    [ score |-> acc.score, level |-> lv.level, color |-> lv.color,
      emoji |-> lv.emoji, factors |-> acc.factors ]

(***************************************************************************)
(* calculate_pair_trading_signals, market_core.py:281-415.  The result is  *)
(* a dict: a function whose domain is the set of keys that were set.       *)
(***************************************************************************)
NoSignals == [ k \in {} |-> 0 ]

\* signals[key] = value
SetKey(signals, key, value) ==
    [ k \in (DOMAIN signals) \cup {key} |-> IF k = key THEN value ELSE signals[k] ]

\* line 290: gold_value / silver_value if silver_value > 0 else 0, kept as the
\* exact fraction num / den (den > 0)
GoldSilverRatio(gold_value, silver_value) ==
    IF silver_value > 0 THEN [ num |-> gold_value, den |-> silver_value ]
    ELSE [ num |-> 0, den |-> 1 ]

\* ratio > n and ratio < n for a fraction with a positive denominator
RatioGt(r, n) == r.num > n * r.den

RatioLt(r, n) == r.num < n * r.den

\* GoldSilverGrade with the second threshold written `>='
GoldSilverGradeGe(ratio) ==
    IF RatioGt(ratio, 90)
    THEN [ signal |-> "strong buy silver / strong sell gold", level |-> "strong_buy",
           description |-> "very high" ]
    ELSE IF ~RatioLt(ratio, 82)
    THEN [ signal |-> "buy silver / sell gold", level |-> "buy",
           description |-> "high" ]
    ELSE IF RatioLt(ratio, 60)
    THEN [ signal |-> "strong buy gold / strong sell silver", level |-> "strong_sell",
           description |-> "very low" ]
    ELSE IF RatioLt(ratio, 68)
    THEN [ signal |-> "buy gold / sell silver", level |-> "sell",
           description |-> "low" ]
    ELSE [ signal |-> "neutral", level |-> "neutral",
           description |-> "normal range 68-82" ]

\* lines 292-311
GoldSilverGrade(ratio) ==
    IF RatioGt(ratio, 90)
    THEN [ signal |-> "strong buy silver / strong sell gold", level |-> "strong_buy",
           description |-> "very high" ]
    ELSE IF RatioGt(ratio, 82)
    THEN [ signal |-> "buy silver / sell gold", level |-> "buy",
           description |-> "high" ]
    ELSE IF RatioLt(ratio, 60)
    THEN [ signal |-> "strong buy gold / strong sell silver", level |-> "strong_sell",
           description |-> "very low" ]
    ELSE IF RatioLt(ratio, 68)
    THEN [ signal |-> "buy gold / sell silver", level |-> "sell",
           description |-> "low" ]
    ELSE [ signal |-> "neutral", level |-> "neutral",
           description |-> "normal range 68-82" ]

\* PairGoldSilver leaving the key out when silver has no price
PairGoldSilverNeedsPrice(signals, items) ==
    LET gold == get_item(items, "gold")
        silver == get_item(items, "silver") IN
    IF ~(Found(gold) /\ Found(silver)) THEN signals
    ELSE IF silver.current_value <= 0 THEN signals
    ELSE LET gold_silver_ratio == GoldSilverRatio(gold.current_value, silver.current_value)
             g == GoldSilverGrade(gold_silver_ratio) IN
         SetKey(signals, "gold_silver",
                [ name |-> "gold-silver pair", signal |-> g.signal, level |-> g.level,
                  description |-> g.description, ratio |-> gold_silver_ratio ])

\* lines 285-317
PairGoldSilver(signals, items) ==
    LET gold == get_item(items, "gold")
        silver == get_item(items, "silver") IN
    IF ~(Found(gold) /\ Found(silver)) THEN signals
    ELSE LET gold_silver_ratio == GoldSilverRatio(gold.current_value, silver.current_value)
             g == GoldSilverGrade(gold_silver_ratio) IN
         SetKey(signals, "gold_silver",
                [ name |-> "gold-silver pair", signal |-> g.signal, level |-> g.level,
                  description |-> g.description, ratio |-> gold_silver_ratio ])

\* VixGrade deciding on the level alone
VixGradeLevelOnly(vix_level, vix_chg) ==
    IF vix_level > 3500
    THEN [ signal |-> "strong buy stocks / strong sell bonds",
           level |-> "strong_buy_stocks", description |-> "extreme fear" ]
    ELSE IF vix_level > 2500
    THEN [ signal |-> "buy stocks / sell bonds",
           level |-> "buy_stocks", description |-> "high fear" ]
    ELSE IF vix_level < 1200
    THEN [ signal |-> "strong buy bonds / strong sell stocks",
           level |-> "strong_sell_stocks", description |-> "extreme optimism" ]
    ELSE IF vix_level < 1500
    THEN [ signal |-> "buy bonds / sell stocks",
           level |-> "sell_stocks", description |-> "low fear" ]
    ELSE [ signal |-> "neutral", level |-> "neutral",
           description |-> "normal range 15-25" ]

\* lines 324-343
VixGrade(vix_level, vix_chg) ==
    IF vix_level > 3500 \/ (vix_level > 3000 /\ vix_chg > 1000)
    THEN [ signal |-> "strong buy stocks / strong sell bonds",
           level |-> "strong_buy_stocks", description |-> "extreme fear" ]
    ELSE IF vix_level > 2500 \/ (vix_level > 2200 /\ vix_chg > 500)
    THEN [ signal |-> "buy stocks / sell bonds",
           level |-> "buy_stocks", description |-> "high fear" ]
    ELSE IF vix_level < 1200
    THEN [ signal |-> "strong buy bonds / strong sell stocks",
           level |-> "strong_sell_stocks", description |-> "extreme optimism" ]
    ELSE IF vix_level < 1500
    THEN [ signal |-> "buy bonds / sell stocks",
           level |-> "sell_stocks", description |-> "low fear" ]
    ELSE [ signal |-> "neutral", level |-> "neutral",
           description |-> "normal range 15-25" ]

\* lines 319-349
PairVix(signals, items) ==
    LET vix == get_item(items, "vix") IN
    IF ~Found(vix) THEN signals
    ELSE LET g == VixGrade(vix.current_value, vix.change_pct) IN
         SetKey(signals, "vix_bonds_stocks",
                [ name |-> "VIX bonds-stocks", signal |-> g.signal, level |-> g.level,
                  description |-> g.description, vix_level |-> vix.current_value ])

\* lines 356-375
UsdJpyGrade(usdjpy_value, usdjpy_chg) ==
    IF usdjpy_value > 16000 \/ (usdjpy_value > 15500 /\ usdjpy_chg > 200)
    THEN [ signal |-> "strong buy yen / strong sell dollar",
           level |-> "strong_buy_jpy", description |-> "yen extremely weak" ]
    ELSE IF usdjpy_value > 15200 \/ (usdjpy_value > 14800 /\ usdjpy_chg > 100)
    THEN [ signal |-> "buy yen / sell dollar",
           level |-> "buy_jpy", description |-> "yen too weak" ]
    ELSE IF usdjpy_value < 13500 \/ (usdjpy_value < 14000 /\ usdjpy_chg < -200)
    THEN [ signal |-> "strong buy dollar / strong sell yen",
           level |-> "strong_sell_jpy", description |-> "yen extremely strong" ]
    ELSE IF usdjpy_value < 14200 \/ (usdjpy_value < 14500 /\ usdjpy_chg < -100)
    THEN [ signal |-> "buy dollar / sell yen",
           level |-> "sell_jpy", description |-> "yen too strong" ]
    ELSE [ signal |-> "neutral", level |-> "neutral",
           description |-> "normal range 142-152" ]

\* lines 351-381
PairUsdJpy(signals, items) ==
    LET usdjpy == get_item(items, "usdjpy") IN
    IF ~Found(usdjpy) THEN signals
    ELSE LET g == UsdJpyGrade(usdjpy.current_value, usdjpy.change_pct) IN
         SetKey(signals, "usd_jpy",
                [ name |-> "dollar-yen carry", signal |-> g.signal, level |-> g.level,
                  description |-> g.description, usdjpy_value |-> usdjpy.current_value ])

\* lines 388-407
SpxNdxGrade(performance_gap) ==
    IF performance_gap > 300
    THEN [ signal |-> "strong buy S&P / strong sell Nasdaq",
           level |-> "strong_buy_spx", description |-> "tech extremely overheated" ]
    ELSE IF performance_gap > 150
    THEN [ signal |-> "buy S&P / sell Nasdaq",
           level |-> "buy_spx", description |-> "tech overheated" ]
    ELSE IF performance_gap < -300
    THEN [ signal |-> "strong buy Nasdaq / strong sell S&P",
           level |-> "strong_buy_ndx", description |-> "tech extremely weak" ]
    ELSE IF performance_gap < -150
    THEN [ signal |-> "buy Nasdaq / sell S&P",
           level |-> "buy_ndx", description |-> "tech weak" ]
    ELSE [ signal |-> "neutral", level |-> "neutral",
           description |-> "balanced range" ]

\* PairSpxNdx with the gap taken as S&P minus Nasdaq
PairSpxNdxSwapped(signals, items) ==
    LET spx == get_item(items, "spx")
        ndx == get_item(items, "ndx") IN
    IF ~(Found(spx) /\ Found(ndx)) THEN signals
    ELSE LET performance_gap == spx.change_pct - ndx.change_pct
             g == SpxNdxGrade(performance_gap) IN
         SetKey(signals, "spx_ndx",
                [ name |-> "S&P-Nasdaq pair", signal |-> g.signal, level |-> g.level,
                  description |-> g.description, performance_gap |-> performance_gap ])

\* lines 383-413
PairSpxNdx(signals, items) ==
    LET spx == get_item(items, "spx")
        ndx == get_item(items, "ndx") IN
    IF ~(Found(spx) /\ Found(ndx)) THEN signals
    ELSE LET performance_gap == ndx.change_pct - spx.change_pct
             g == SpxNdxGrade(performance_gap) IN
         SetKey(signals, "spx_ndx",
                [ name |-> "S&P-Nasdaq pair", signal |-> g.signal, level |-> g.level,
                  description |-> g.description, performance_gap |-> performance_gap ])

calculate_pair_trading_signals(market_data) ==
    PairSpxNdx(PairUsdJpy(PairVix(PairGoldSilver(NoSignals, market_data),
                                  market_data), market_data), market_data)

(***************************************************************************)
(* The answers of the feed.                                                *)
(***************************************************************************)
Raised == [ raised |-> TRUE, close |-> << >> ]

History(closes) == [ raised |-> FALSE, close |-> closes ]

Nominal == History(<< 10000, 10000 >>)

Answers ==
    { Raised, History(<< >>), History(<< 10000 >>), Nominal,
      History(<< 10000, 10100 >>), History(<< 9000, 10000, 9850 >>) }

\* every instrument answers `rest', except those of the set `odd'
FeedOf(odd, oddAnswer, rest) ==
    [ k \in Keys |-> IF k \in odd THEN oddAnswer ELSE rest ]

\* all instruments give the same answer
UniformFeeds == { FeedOf({}, a, a) : a \in Answers }

\* all instruments give the same answer, or up to MaxOdd instruments give
\* another answer than the nominal one
Feeds ==
    UniformFeeds
    \cup { FeedOf(odd, a, Nominal) :
             odd \in { s \in SUBSET Keys : Cardinality(s) \in 1..MaxOdd },
             a \in Answers \ {Nominal} }

(***************************************************************************)
(* State.                                                                  *)
(***************************************************************************)
VARIABLES
    HAS_YFINANCE,   \* market_core.py:6-10, fixed when the module is imported
    feed,           \* what the price feed answers for each symbol
    now,            \* time.time()
    _cache,         \* the dict _cache: no key, or the key "market_data"
    _cache_lock,    \* the set of callers that hold the lock: empty or one caller
    pc,             \* where each caller is
    data,           \* the local list `data' of a caller in fetch_market_data
    read_at,        \* when that list was read from the feed (0 while there is none)
    ret,            \* what the last call of each caller returned
    cleared,        \* clear_cache() returned and no fetch_market_data() began since
    since,          \* what happened to the slot since the caller's last fetch returned
    snapshot,       \* the list given to the scorer and to the pair engine
    focus,          \* the instruments whose entries vary in this run
    edits,          \* how many entries of the base snapshot were changed
    done,           \* which of the two functions ran on the snapshot
    risk,           \* the result of compute_risk_signal(snapshot)
    signals,        \* the result of calculate_pair_trading_signals(snapshot)
    retry_config,   \* telegram_sender.py: the RetryConfig of the sender
    rpc,            \* where _retry_operation is: "call", "sleep" or "done"
    attempt,        \* the loop variable of _retry_operation
    retry_count,    \* its local retry_count
    last_error,     \* its local last_error (NoError for None)
    delay,          \* the argument of its last asyncio.sleep
    outcomes,       \* what each call of the operation gave, in order
    result,         \* the SendResult it returned (NoResult before)
    AUTHORIZED_USERS,       \* telegram_bot.py:43, the set of the polling bot
    _alert_chats,           \* telegram_bot.py:60
    FLASK_AUTHORIZED_USERS, \* flask_app.py:43, the set AUTHORIZED_USERS of the web app
    web_pc,         \* where each request thread of the web app is
    web_user,       \* the user id of the update each thread handles
    update,         \* the update the polling loop handles (NoUpdate between two)
    sent            \* the last answer: chat, kind of message, handler that ran

cacheVars == << HAS_YFINANCE, feed, now, _cache, _cache_lock, pc, data, read_at,
                ret, cleared, since >>

scoreVars == << snapshot, focus, edits, done, risk, signals >>

sendVars == << retry_config, rpc, attempt, retry_count, last_error, delay,
               outcomes, result >>

botVars == << AUTHORIZED_USERS, _alert_chats, FLASK_AUTHORIZED_USERS, web_pc,
              web_user, update, sent >>

vars == << cacheVars, scoreVars, sendVars, botVars >>

Callers == 1..NumCallers

\* kind: "none" (nothing returned yet), "hit", "refresh", "raise", "cleared";
\* data: the list returned by fetch_market_data; ts: the timestamp of the
\* entry the list belongs to (both only for the kinds "hit" and "refresh")
NoRet == [ kind |-> "none", data |-> << >>, ts |-> 0 ]

EmptyCache == [ k \in {} |-> 0 ]

\* _cache.get('market_data') is not None
HasEntry(c) == "market_data" \in DOMAIN c

\* CacheHit with the TTL test written `<='
CacheHitLe(c, t) == HasEntry(c) /\ (t - c["market_data"].ts) <= CACHE_TTL

\* line 70: cached and (time.time() - cached['ts']) < CACHE_TTL
CacheHit(c, t) == HasEntry(c) /\ (t - c["market_data"].ts) < CACHE_TTL

\* RaisesOnMiss with the test of HAS_YFINANCE inverted
RaisesOnMissInverted(has) == has

\* line 73: if not HAS_YFINANCE: raise RuntimeError
RaisesOnMiss(has) == ~has

\* line 119: the entry written by a refresh.  The field `read' is not in the
\* code: it records when the data was read from the feed.
NewEntry(d, t, r) == [ data |-> d, ts |-> t, read |-> r ]

CacheInit(feeds) ==
    /\ HAS_YFINANCE \in BOOLEAN
    /\ feed \in feeds
    /\ now = 0
    /\ _cache = EmptyCache
    /\ _cache_lock = {}
    /\ pc = [ p \in Callers |-> "idle" ]
    /\ data = [ p \in Callers |-> << >> ]
    /\ read_at = [ p \in Callers |-> 0 ]
    /\ ret = [ p \in Callers |-> NoRet ]
    /\ cleared = FALSE
    /\ since = [ p \in Callers |-> "same" ]

(***************************************************************************)
(* fetch_market_data, market_core.py:66-120.  The function is cut where it *)
(* takes the lock: the two `with _cache_lock' blocks are one step each     *)
(* after the lock is acquired, and the loop over the catalog, which only   *)
(* touches the local list, is one step between them.                       *)
(***************************************************************************)
\* line 68: with _cache_lock (enter).  The call begins here.
fetch_lock(p) ==
    /\ pc[p] = "idle"
    /\ _cache_lock = {}
    /\ _cache_lock' = {p}
    /\ pc' = [pc EXCEPT ![p] = "check"]
    /\ UNCHANGED << HAS_YFINANCE, feed, now, _cache, data, read_at, ret, cleared, since >>
    /\ UNCHANGED << scoreVars, sendVars, botVars >>

\* fetch_check with one `with _cache_lock' around the whole function: a
\* caller that misses keeps the lock while it requests the feed
fetch_checkKeepsLock(p) ==
    /\ pc[p] = "check"
    /\ _cache_lock = {p}
    /\ cleared' = FALSE
    /\ IF CacheHit(_cache, now)
       THEN /\ ret' = [ret EXCEPT ![p] =
                         [ kind |-> "hit", data |-> _cache["market_data"].data,
                           ts |-> _cache["market_data"].ts ]]
            /\ since' = [since EXCEPT ![p] = "same"]
            /\ pc' = [pc EXCEPT ![p] = "idle"]
            /\ _cache_lock' = {}
       ELSE IF RaisesOnMiss(HAS_YFINANCE)
       THEN /\ ret' = [ret EXCEPT ![p] = [NoRet EXCEPT !.kind = "raise"]]
            /\ pc' = [pc EXCEPT ![p] = "idle"]
            /\ _cache_lock' = {}
            /\ UNCHANGED since
       ELSE /\ ret' = [ret EXCEPT ![p] = NoRet]
            /\ pc' = [pc EXCEPT ![p] = "fetch"]
            /\ UNCHANGED << since, _cache_lock >>
    /\ UNCHANGED << HAS_YFINANCE, feed, now, _cache, data, read_at >>
    /\ UNCHANGED << scoreVars, sendVars, botVars >>

\* fetch_check with single-flight: a caller that misses while another
\* caller is between its TTL test and its store starts no refresh of its own
\* and comes back later
fetch_checkSingleFlight(p) ==
    /\ pc[p] = "check"
    /\ _cache_lock = {p}
    /\ _cache_lock' = {}
    /\ cleared' = FALSE
    /\ IF CacheHit(_cache, now)
       THEN /\ ret' = [ret EXCEPT ![p] =
                         [ kind |-> "hit", data |-> _cache["market_data"].data,
                           ts |-> _cache["market_data"].ts ]]
            /\ since' = [since EXCEPT ![p] = "same"]
            /\ pc' = [pc EXCEPT ![p] = "idle"]
       ELSE IF RaisesOnMiss(HAS_YFINANCE)
       THEN /\ ret' = [ret EXCEPT ![p] = [NoRet EXCEPT !.kind = "raise"]]
            /\ pc' = [pc EXCEPT ![p] = "idle"]
            /\ UNCHANGED since
       ELSE IF \E q \in Callers \ {p} : pc[q] \in {"fetch", "fetched", "store"}
       THEN /\ ret' = [ret EXCEPT ![p] = NoRet]
            /\ pc' = [pc EXCEPT ![p] = "idle"]
            /\ UNCHANGED since
       ELSE /\ ret' = [ret EXCEPT ![p] = NoRet]
            /\ pc' = [pc EXCEPT ![p] = "fetch"]
            /\ UNCHANGED since
    /\ UNCHANGED << HAS_YFINANCE, feed, now, _cache, data, read_at >>
    /\ UNCHANGED << scoreVars, sendVars, botVars >>

\* lines 69-74: the TTL test, then the test of HAS_YFINANCE
fetch_check(p) ==
    /\ pc[p] = "check"
    /\ _cache_lock = {p}
    /\ _cache_lock' = {}
    /\ cleared' = FALSE
    /\ IF CacheHit(_cache, now)
       THEN \* line 71: return cached['data']
            /\ ret' = [ret EXCEPT ![p] =
                         [ kind |-> "hit", data |-> _cache["market_data"].data,
                           ts |-> _cache["market_data"].ts ]]
            /\ since' = [since EXCEPT ![p] = "same"]
            /\ pc' = [pc EXCEPT ![p] = "idle"]
       ELSE IF RaisesOnMiss(HAS_YFINANCE)
       THEN \* line 74: raise RuntimeError
            /\ ret' = [ret EXCEPT ![p] = [NoRet EXCEPT !.kind = "raise"]]
            /\ pc' = [pc EXCEPT ![p] = "idle"]
            /\ UNCHANGED since
       ELSE /\ ret' = [ret EXCEPT ![p] = NoRet]
            /\ pc' = [pc EXCEPT ![p] = "fetch"]
            /\ UNCHANGED since
    /\ UNCHANGED << HAS_YFINANCE, feed, now, _cache, data, read_at >>
    /\ UNCHANGED << scoreVars, sendVars, botVars >>

\* fetch_feed that builds the list in the cache slot itself: every stride
\* publishes the entries appended so far, without the lock
fetch_feedInPlace(p) ==
    /\ pc[p] = "fetch"
    /\ IF Len(data[p]) + Stride >= Len(TICKER_ORDER)
       THEN /\ data' = [data EXCEPT ![p] = FetchLoop(feed, Len(data[p]) + 1, data[p])]
            /\ read_at' = [read_at EXCEPT ![p] = now]
            /\ pc' = [pc EXCEPT ![p] = "fetched"]
       ELSE /\ data' = [data EXCEPT ![p] =
                          FetchPart(feed, Len(data[p]) + 1, Len(data[p]) + Stride,
                                    data[p])]
            /\ UNCHANGED << read_at, pc >>
    /\ _cache' = [ k \in {"market_data"} |-> NewEntry(data'[p], now, now) ]
    /\ UNCHANGED << HAS_YFINANCE, feed, now, _cache_lock, ret, cleared, since >>
    /\ UNCHANGED << scoreVars, sendVars, botVars >>

\* lines 76-116: one feed request per catalog entry, Stride requests in a
\* step; the step that makes the last request ends the loop
fetch_feed(p) ==
    /\ pc[p] = "fetch"
    /\ IF Len(data[p]) + Stride >= Len(TICKER_ORDER)
       THEN /\ data' = [data EXCEPT ![p] = FetchLoop(feed, Len(data[p]) + 1, data[p])]
            /\ read_at' = [read_at EXCEPT ![p] = now]
            /\ pc' = [pc EXCEPT ![p] = "fetched"]
       ELSE /\ data' = [data EXCEPT ![p] =
                          FetchPart(feed, Len(data[p]) + 1, Len(data[p]) + Stride,
                                    data[p])]
            /\ UNCHANGED << read_at, pc >>
    /\ UNCHANGED << HAS_YFINANCE, feed, now, _cache, _cache_lock, ret, cleared, since >>
    /\ UNCHANGED << scoreVars, sendVars, botVars >>

\* line 118: with _cache_lock (enter)
store_lock(p) ==
    /\ pc[p] = "fetched"
    /\ _cache_lock = {}
    /\ _cache_lock' = {p}
    /\ pc' = [pc EXCEPT ![p] = "store"]
    /\ UNCHANGED << HAS_YFINANCE, feed, now, _cache, data, read_at, ret, cleared, since >>
    /\ UNCHANGED << scoreVars, sendVars, botVars >>

\* lines 119-120: replace the entry, leave the lock, return data
fetch_store(p) ==
    /\ pc[p] = "store"
    /\ _cache_lock = {p}
    /\ _cache' = [ k \in {"market_data"} |-> NewEntry(data[p], now, read_at[p]) ]
    /\ _cache_lock' = {}
    /\ ret' = [ret EXCEPT ![p] = [ kind |-> "refresh", data |-> data[p], ts |-> now ]]
    /\ since' = [ q \in Callers |->
                    IF q = p THEN "same"
                    ELSE IF since[q] = "same" THEN "stored" ELSE since[q] ]
    /\ data' = [data EXCEPT ![p] = << >>]
    /\ read_at' = [read_at EXCEPT ![p] = 0]
    /\ pc' = [pc EXCEPT ![p] = "idle"]
    /\ UNCHANGED << HAS_YFINANCE, feed, now, cleared >>
    /\ UNCHANGED << scoreVars, sendVars, botVars >>

(***************************************************************************)
(* clear_cache, market_core.py:461-464.                                    *)
(***************************************************************************)
\* line 463: with _cache_lock (enter)
clear_lock(p) ==
    /\ pc[p] = "idle"
    /\ _cache_lock = {}
    /\ _cache_lock' = {p}
    /\ pc' = [pc EXCEPT ![p] = "clear"]
    /\ UNCHANGED << HAS_YFINANCE, feed, now, _cache, data, read_at, ret, cleared, since >>
    /\ UNCHANGED << scoreVars, sendVars, botVars >>

\* line 464: _cache.clear(), leave the lock, return
clear_cache(p) ==
    /\ pc[p] = "clear"
    /\ _cache_lock = {p}
    /\ _cache' = EmptyCache
    /\ _cache_lock' = {}
    /\ ret' = [ret EXCEPT ![p] = [NoRet EXCEPT !.kind = "cleared"]]
    /\ cleared' = TRUE
    /\ since' = [ q \in Callers |-> "cleared" ]
    /\ pc' = [pc EXCEPT ![p] = "idle"]
    /\ UNCHANGED << HAS_YFINANCE, feed, now, data, read_at >>
    /\ UNCHANGED << scoreVars, sendVars, botVars >>

\* the clock
Tick ==
    /\ now + TimeStep <= MaxTime
    /\ now' = now + TimeStep
    /\ UNCHANGED << HAS_YFINANCE, feed, _cache, _cache_lock, pc, data, read_at, ret,
                    cleared, since >>
    /\ UNCHANGED << scoreVars, sendVars, botVars >>

(***************************************************************************)
(* The snapshots given to compute_risk_signal and to                       *)
(* calculate_pair_trading_signals.  Every entry is one that                *)
(* fetch_market_data builds: from a history <<previous, current>> or from  *)
(* a failed request.                                                       *)
(***************************************************************************)
Readings ==
    [ gold   |-> { <<200000, 200000>>, <<200000, 203000>>, <<200000, 204000>>,
                   <<200000, 205000>>, <<180000, 180000>> },
      silver |-> { <<2000, 2000>>, <<2500, 2500>>, <<3000, 3000>>, <<4000, 4000>>,
                   <<2000, 2040>>, <<2000, 2080>> },
      copper |-> { <<10000, 10000>>, <<10000, 10200>>, <<10000, 10400>>, <<10000, 9600>> },
      dxy    |-> { <<10000, 10000>>, <<10000, 10040>>, <<10000, 10060>>, <<10000, 10150>>,
                   <<10000, 9940>>, <<10800, 10800>>, <<11000, 11165>> },
      us10y  |-> { <<400, 400>>, <<400, 410>>, <<400, 415>>, <<400, 420>>, <<400, 430>>,
                   <<400, 375>> },
      btc    |-> { <<10000, 10000>>, <<10000, 10400>>, <<10000, 10700>> },
      krwjpy |-> { <<10000, 10000>>, <<10000, 9940>>, <<10000, 9880>>, <<10000, 9750>> },
      krwusd |-> { <<10000, 10000>>, <<10000, 10060>>, <<10000, 10150>>, <<10000, 10250>>,
                   <<10000, 9850>>, <<10000, 9750>> },
      usdjpy |-> { <<15000, 15000>>, <<16100, 16100>>, <<15000, 15600>>, <<15300, 15300>>,
                   <<14800, 15096>>, <<13000, 13000>>, <<14000, 13650>>, <<14100, 14100>>,
                   <<14600, 14381>> },
      spx    |-> { <<10000, 9300>>, <<10000, 9650>>, <<10000, 9700>>, <<10000, 9800>>,
                   <<10000, 9900>>, <<10000, 10000>>, <<10000, 10200>> },
      ndx    |-> { <<10000, 9650>>, <<10000, 9800>>, <<10000, 9900>>, <<10000, 10000>>,
                   <<10000, 10200>>, <<10000, 10400>> },
      vix    |-> { <<1000, 1000>>, <<1400, 1400>>, <<1500, 1500>>, <<2000, 2000>>,
                   <<2000, 2400>>, <<2500, 2500>>, <<2800, 2800>>, <<2500, 3200>>,
                   <<4000, 4000>> } ]

\* a feed on which every rule family fires in its highest tier
StormFeed ==
    [ gold   |-> History(<<200000, 205000>>),
      silver |-> History(<<2000, 2080>>),
      copper |-> History(<<10000, 10400>>),
      dxy    |-> History(<<11000, 11165>>),
      us10y  |-> History(<<400, 430>>),
      btc    |-> History(<<10000, 10700>>),
      krwjpy |-> History(<<10000, 9750>>),
      krwusd |-> History(<<10000, 10250>>),
      usdjpy |-> History(<<14000, 13650>>),
      spx    |-> History(<<10000, 9300>>),
      ndx    |-> History(<<10000, 9650>>),
      vix    |-> History(<<4000, 4000>>) ]

\* a list with three instruments only: S&P 500 down 3.5 %, Nasdaq 100 down
\* 1.0 %, VIX unchanged at 28
ThreeIndexSnapshot ==
    << HistEntry("spx", <<10000, 9650>>),
       HistEntry("ndx", <<10000, 9900>>),
       HistEntry("vix", <<2800, 2800>>) >>

BaseSnapshots ==
    { << >>,
      ThreeIndexSnapshot,
      FetchLoop(FeedOf({}, Nominal, Nominal), 1, << >>),
      FetchLoop(FeedOf({}, Raised, Raised), 1, << >>),
      FetchLoop(StormFeed, 1, << >>) }

\* the list with the entry of that id replaced, or appended when there is none
PutEntry(items, e) ==
    IF \E i \in 1..Len(items) : items[i].id = e.id
    THEN [ i \in 1..Len(items) |-> IF items[i].id = e.id THEN e ELSE items[i] ]
    ELSE Append(items, e)

\* the list without the entries of that id
RECURSIVE WithoutKey(_, _)
WithoutKey(items, key) ==
    IF items = << >> THEN << >>
    ELSE IF Head(items).id = key THEN WithoutKey(Tail(items), key)
    ELSE << Head(items) >> \o WithoutKey(Tail(items), key)

NoRisk == [ score |-> 0, level |-> "none", color |-> "none", emoji |-> "none",
            factors |-> << >> ]

\* the instruments that some rule or some pair reads together: S&P 500 with
\* Nasdaq 100 (lines 148, 385), gold with silver (line 287), the four of the
\* FX divergence block (line 182); every other instrument is read alone
InstrumentGroups ==
    { {"spx", "ndx"}, {"gold", "silver"}, {"dxy", "krwusd", "usdjpy", "krwjpy"},
      {"vix"}, {"us10y"}, {"copper"}, {"btc"} }

\* a run starts from a base snapshot and varies the entries of one group;
\* the instruments of the other groups keep the entries of the base
ScoreInit ==
    /\ snapshot \in BaseSnapshots
    /\ focus \in InstrumentGroups
    /\ edits = 0
    /\ done = {}
    /\ risk = NoRisk
    /\ signals = NoSignals

\* the snapshot is not used by the cache model
ScoreIdle ==
    /\ snapshot = << >>
    /\ focus = {}
    /\ edits = 0
    /\ done = {}
    /\ risk = NoRisk
    /\ signals = NoSignals

\* an instrument gets another reading
set_entry(key, hist) ==
    /\ done = {}
    /\ edits < MaxEdits
    /\ key \in focus
    /\ snapshot' = PutEntry(snapshot, HistEntry(key, hist))
    /\ snapshot' # snapshot
    /\ edits' = edits + 1
    /\ UNCHANGED << focus, done, risk, signals >>
    /\ UNCHANGED << cacheVars, sendVars, botVars >>

\* the request for an instrument failed
fail_entry(key) ==
    /\ done = {}
    /\ edits < MaxEdits
    /\ key \in focus
    /\ snapshot' = PutEntry(snapshot, ErrorEntry(key))
    /\ snapshot' # snapshot
    /\ edits' = edits + 1
    /\ UNCHANGED << focus, done, risk, signals >>
    /\ UNCHANGED << cacheVars, sendVars, botVars >>

\* an instrument is left out of the list
drop_entry(key) ==
    /\ done = {}
    /\ edits < MaxEdits
    /\ key \in focus
    /\ Found(get_item(snapshot, key))
    /\ snapshot' = WithoutKey(snapshot, key)
    /\ edits' = edits + 1
    /\ UNCHANGED << focus, done, risk, signals >>
    /\ UNCHANGED << cacheVars, sendVars, botVars >>

\* two neighbours of the list change places
swap_entries(i) ==
    /\ done = {}
    /\ edits < MaxEdits
    /\ i \in 1..(Len(snapshot) - 1)
    /\ snapshot' = [snapshot EXCEPT ![i] = snapshot[i + 1], ![i + 1] = snapshot[i]]
    /\ edits' = edits + 1
    /\ UNCHANGED << focus, done, risk, signals >>
    /\ UNCHANGED << cacheVars, sendVars, botVars >>

\* the list is turned around
reverse_entries ==
    /\ done = {}
    /\ edits < MaxEdits
    /\ Len(snapshot) >= 2
    /\ snapshot' = [ i \in 1..Len(snapshot) |-> snapshot[Len(snapshot) + 1 - i] ]
    /\ edits' = edits + 1
    /\ UNCHANGED << focus, done, risk, signals >>
    /\ UNCHANGED << cacheVars, sendVars, botVars >>

\* risk = compute_risk_signal(data)
score_risk ==
    /\ "risk" \notin done
    /\ risk' = compute_risk_signal(snapshot)
    /\ done' = done \cup {"risk"}
    /\ UNCHANGED << snapshot, focus, edits, signals >>
    /\ UNCHANGED << cacheVars, sendVars, botVars >>

\* signals = calculate_pair_trading_signals(data)
score_pairs ==
    /\ "pairs" \notin done
    /\ signals' = calculate_pair_trading_signals(snapshot)
    /\ done' = done \cup {"pairs"}
    /\ UNCHANGED << snapshot, focus, edits, risk >>
    /\ UNCHANGED << cacheVars, sendVars, botVars >>

(***************************************************************************)
(* The callers of the scorer and of the pair engine (flask_app.py:147-148, *)
(* 194-195, 219-221 and the same lines of the bot): the list that          *)
(* fetch_market_data returned is passed on as it is.  The list is the      *)
(* object held in the cache slot; neither function assigns to it, to its   *)
(* entries, to _cache or calls the feed (market_core.py:123-415), so the   *)
(* steps leave the cache as it is.  The result of the other function stays *)
(* valid while the list is the same.                                       *)
(***************************************************************************)
\* the list without its error entries
RECURSIVE WithoutErrors(_)
WithoutErrors(items) ==
    IF items = << >> THEN << >>
    ELSE IF Head(items).status = "error" THEN WithoutErrors(Tail(items))
    ELSE << Head(items) >> \o WithoutErrors(Tail(items))

\* call_risk with a scorer that removes the error entries from the list it
\* is given, in place: the list is the one held in the slot
call_riskDropsErrors(p) ==
    /\ pc[p] = "idle"
    /\ ret[p].kind \in {"hit", "refresh"}
    /\ snapshot' = WithoutErrors(ret[p].data)
    /\ risk' = compute_risk_signal(snapshot')
    /\ done' = (IF snapshot' = snapshot THEN done ELSE {}) \cup {"risk"}
    /\ ret' = [ret EXCEPT ![p].data = snapshot']
    /\ _cache' = IF HasEntry(_cache) /\ _cache["market_data"].data = ret[p].data
                 THEN [_cache EXCEPT !["market_data"].data = snapshot']
                 ELSE _cache
    /\ UNCHANGED << HAS_YFINANCE, feed, now, _cache_lock, pc, data, read_at,
                    cleared, since >>
    /\ UNCHANGED << focus, edits, signals >>
    /\ UNCHANGED << sendVars, botVars >>

\* data = fetch_market_data(); risk = compute_risk_signal(data)
call_risk(p) ==
    /\ pc[p] = "idle"
    /\ ret[p].kind \in {"hit", "refresh"}
    /\ snapshot' = ret[p].data
    /\ risk' = compute_risk_signal(ret[p].data)
    /\ done' = (IF snapshot' = snapshot THEN done ELSE {}) \cup {"risk"}
    /\ UNCHANGED << focus, edits, signals >>
    /\ UNCHANGED << cacheVars, sendVars, botVars >>

\* data = fetch_market_data(); signals = calculate_pair_trading_signals(data)
call_pairs(p) ==
    /\ pc[p] = "idle"
    /\ ret[p].kind \in {"hit", "refresh"}
    /\ snapshot' = ret[p].data
    /\ signals' = calculate_pair_trading_signals(ret[p].data)
    /\ done' = (IF snapshot' = snapshot THEN done ELSE {}) \cup {"pairs"}
    /\ UNCHANGED << focus, edits, risk >>
    /\ UNCHANGED << cacheVars, sendVars, botVars >>


(***************************************************************************)
(* TelegramSender._retry_operation, telegram_sender.py:179-258, with the   *)
(* RetryConfig of lines 54-60.  A text is the sequence of its characters,  *)
(* so that `err in str(description)' is the search for a substring.  The   *)
(* function is cut at its two awaits: the call of the operation and the    *)
(* sleep before the next attempt.                                          *)
(***************************************************************************)
T_Unauthorized ==
    << "U", "n", "a", "u", "t", "h", "o", "r", "i", "z", "e", "d" >>

T_Forbidden ==
    << "F", "o", "r", "b", "i", "d", "d", "e", "n" >>

T_chat_not_found ==
    << "c", "h", "a", "t", " ", "n", "o", "t", " ", "f", "o", "u", "n",
       "d" >>

T_bot_was_blocked ==
    << "b", "o", "t", " ", "w", "a", "s", " ", "b", "l", "o", "c", "k",
       "e", "d" >>

D_Blocked ==
    << "F", "o", "r", "b", "i", "d", "d", "e", "n", ":", " ", "b", "o",
       "t", " ", "w", "a", "s", " ", "b", "l", "o", "c", "k", "e", "d",
       " ", "b", "y", " ", "t", "h", "e", " ", "u", "s", "e", "r" >>

D_ChatNotFound ==
    << "B", "a", "d", " ", "R", "e", "q", "u", "e", "s", "t", ":", " ",
       "c", "h", "a", "t", " ", "n", "o", "t", " ", "f", "o", "u", "n",
       "d" >>

D_Deactivated ==
    << "F", "o", "r", "b", "i", "d", "d", "e", "n", ":", " ", "u", "s",
       "e", "r", " ", "i", "s", " ", "d", "e", "a", "c", "t", "i", "v",
       "a", "t", "e", "d" >>

D_TooMany ==
    << "T", "o", "o", " ", "M", "a", "n", "y", " ", "R", "e", "q", "u",
       "e", "s", "t", "s", ":", " ", "r", "e", "t", "r", "y", " ", "a",
       "f", "t", "e", "r", " ", "5" >>

D_Timeout ==
    << "t", "i", "m", "e", "d", " ", "o", "u", "t" >>

D_Reset ==
    << "C", "o", "n", "n", "e", "c", "t", "i", "o", "n", " ", "r", "e",
       "s", "e", "t" >>

D_Unknown ==
    << "U", "n", "k", "n", "o", "w", "n", " ", "e", "r", "r", "o", "r" >>

\* lines 218-223: fatal_errors
fatal_errors == << T_Unauthorized, T_Forbidden, T_chat_not_found, T_bot_was_blocked >>

\* `sub in text' of Python
Contains(text, sub) ==
    \E i \in 0..(Len(text) - Len(sub)) : SubSeq(text, i + 1, i + Len(sub)) = sub

\* line 224: any(err in str(description) for err in fatal_errors)
IsFatal(description) ==
    \E k \in 1..Len(fatal_errors) : Contains(description, fatal_errors[k])

\* InRange with one value more in the range
InRangePlusOne(a, max_retries) == a < max_retries + 2

\* line 198: attempt in range(self.retry_config.max_retries + 1)
InRange(a, max_retries) == a >= 0 /\ a < max_retries + 1

RECURSIVE Power(_, _)
Power(b, n) == IF n = 0 THEN 1 ELSE b * Power(b, n - 1)

Min(a, b) == IF a < b THEN a ELSE b

\* lines 244-249: min(base_delay * exponential_base ** attempt, max_delay)
DelayOf(config, a) ==
    Min(config.base_delay * Power(config.exponential_base, a), config.max_delay)

\* lines 54-60: the defaults of RetryConfig, with max_retries of the caller's
\* choice
RetryConfigs ==
    [ max_retries : 0..MaxRetries, base_delay : {1}, max_delay : {30},
      exponential_base : {2} ]

\* what one call of the operation gives: a dict with ok true, a dict with ok
\* false and a description, or an exception with its text
OkResult == [ kind |-> "result", ok |-> TRUE, description |-> << >>, message_id |-> 7 ]

FailedResult(d) == [ kind |-> "result", ok |-> FALSE, description |-> d, message_id |-> 0 ]

Raises(d) == [ kind |-> "raise", ok |-> FALSE, description |-> d, message_id |-> 0 ]

OperationOutcomes ==
    { OkResult }
    \cup { FailedResult(d) : d \in { T_Unauthorized, D_Blocked, D_ChatNotFound,
                                     D_Deactivated, D_TooMany, D_Timeout, << >> } }
    \cup { Raises(d) : d \in { D_Reset, T_Unauthorized } }

\* None
NoError == << "None" >>

NoResult == [ success |-> FALSE, message_id |-> 0, error |-> NoError, retry_count |-> -1 ]

\* SendResult(success=..., message_id=..., error=..., retry_count=...)
SendResult(success, message_id, error, count) ==
    [ success |-> success, message_id |-> message_id, error |-> error,
      retry_count |-> count ]

\* line 256: last_error or "Unknown error" (None and the empty text are false)
ErrorOr(e) == IF e = NoError \/ e = << >> THEN D_Unknown ELSE e

\* the sender is not used
SendIdle ==
    /\ retry_config \in { c \in RetryConfigs : c.max_retries = MaxRetries }
    /\ rpc = "idle"
    /\ attempt = 0
    /\ retry_count = 0
    /\ last_error = NoError
    /\ delay = 0
    /\ outcomes = << >>
    /\ result = NoResult

\* lines 195-198: _retry_operation was called
SendInit ==
    /\ retry_config \in RetryConfigs
    /\ rpc = (IF InRange(0, retry_config.max_retries) THEN "call" ELSE "done")
    /\ attempt = 0
    /\ retry_count = 0
    /\ last_error = NoError
    /\ delay = 0
    /\ outcomes = << >>
    /\ result = NoResult

\* lines 199-252: one pass of the loop body, from the call of the operation
\* to the return or to the sleep
retry_call(outcome) ==
    /\ rpc = "call"
    /\ outcomes' = Append(outcomes, outcome)
    /\ IF outcome.kind = "result" /\ outcome.ok
       THEN \* lines 202-211
            /\ result' = SendResult(TRUE, outcome.message_id, NoError, retry_count)
            /\ rpc' = "done"
            /\ UNCHANGED << retry_count, last_error, delay >>
       ELSE IF outcome.kind = "result" /\ IsFatal(outcome.description)
       THEN \* lines 224-230
            /\ result' = SendResult(FALSE, 0, outcome.description, retry_count)
            /\ rpc' = "done"
            /\ UNCHANGED << retry_count, last_error, delay >>
       ELSE \* lines 232, 234-235 and 242-252
            /\ last_error' = outcome.description
            /\ IF attempt < retry_config.max_retries
               THEN /\ retry_count' = retry_count + 1
                    /\ delay' = DelayOf(retry_config, attempt)
                    /\ rpc' = "sleep"
               ELSE /\ rpc' = "next"
                    /\ UNCHANGED << retry_count, delay >>
            /\ UNCHANGED result
    /\ UNCHANGED << retry_config, attempt >>
    /\ UNCHANGED << cacheVars, scoreVars, botVars >>

\* line 198 again, after the sleep when there was one: the next value of the
\* range, or lines 254-258 when the range is used up
retry_next ==
    /\ rpc \in {"sleep", "next"}
    /\ IF InRange(attempt + 1, retry_config.max_retries)
       THEN /\ attempt' = attempt + 1
            /\ rpc' = "call"
            /\ UNCHANGED result
       ELSE /\ result' = SendResult(FALSE, 0, ErrorOr(last_error), retry_count)
            /\ rpc' = "done"
            /\ UNCHANGED attempt
    /\ UNCHANGED << retry_config, retry_count, last_error, delay, outcomes >>
    /\ UNCHANGED << cacheVars, scoreVars, botVars >>

(***************************************************************************)
(* The command front ends: process_update of the polling bot               *)
(* (telegram_bot.py:435-473) and the route webhook of the web app          *)
(* (flask_app.py:267-309), each with its own module-level set              *)
(* AUTHORIZED_USERS and its own is_authorized.  The chat of an update is   *)
(* the private chat of its user.  A handler runs fetch_market_data or      *)
(* clear_cache from its first line to its last without another caller of  *)
(* the cache in between; the interleavings of the cache are those of Spec. *)
(***************************************************************************)
Users == 1..NumUsers

\* the texts of the updates: one that is no command, commands of the
\* routing table, /alert with its arguments, and a command nobody handles
Texts ==
    { [ cmd |-> "hello", args |-> "" ],
      [ cmd |-> "/id", args |-> "" ],
      [ cmd |-> "/risk", args |-> "" ],
      [ cmd |-> "/refresh", args |-> "" ],
      [ cmd |-> "/alert", args |-> "on" ],
      [ cmd |-> "/alert", args |-> "off" ],
      [ cmd |-> "/nosuch", args |-> "" ] }

\* text.startswith("/")
IsCommand(text) == text.cmd \in {"/id", "/risk", "/refresh", "/alert", "/nosuch"}

\* telegram_bot.py:417-429, the entries of the routing table that the model
\* follows
COMMANDS ==
    [ c \in {"/id", "/risk", "/refresh"} |->
        IF c = "/id" THEN "cmd_id" ELSE IF c = "/risk" THEN "cmd_risk" ELSE "cmd_refresh" ]

NoUpdate == [ user |-> 0, text |-> [ cmd |-> "", args |-> "" ] ]

NoSent == [ chat |-> 0, kind |-> "none", handler |-> "none" ]

\* telegram_bot.py:126-137 and flask_app.py:92-99, run without interruption:
\* the set afterwards and the value returned
is_authorized(users, user_id) ==
    LET after == IF users = {} THEN users \cup {user_id} ELSE users IN
    [ users |-> after, ok |-> user_id \in after ]

\* fetch_market_data() (market_core.py:66-120) called by a handler: a hit
\* leaves the slot, a miss without yfinance raises into the handler's except
\* branch, any other miss stores a new entry
SlotAfterFetch(c) ==
    IF CacheHit(c, now) \/ RaisesOnMiss(HAS_YFINANCE) THEN c
    ELSE [ k \in {"market_data"} |-> NewEntry(FetchLoop(feed, 1, << >>), now, now) ]

\* the slot after the handler of that name ran: cmd_risk fetches
\* (telegram_bot.py:197, flask_app.py:147), cmd_refresh clears
\* (telegram_bot.py:356, flask_app.py:252), cmd_id does neither
SlotAfterHandler(handler, c) ==
    IF handler = "cmd_risk" THEN SlotAfterFetch(c)
    ELSE IF handler = "cmd_refresh" THEN EmptyCache
    ELSE c

\* telegram_bot.py:43-48, flask_app.py:43-48: the ids of the environment
\* variable AUTHORIZED_USERS, none or one in the model
SetsAtStartup == { {}, {1} }

\* neither front end is running
BotIdle ==
    /\ AUTHORIZED_USERS = {}
    /\ _alert_chats = {}
    /\ FLASK_AUTHORIZED_USERS = {}
    /\ web_pc = [ t \in Callers |-> "idle" ]
    /\ web_user = [ t \in Callers |-> 0 ]
    /\ update = NoUpdate
    /\ sent = NoSent

\* the polling bot starts
BotInit ==
    /\ AUTHORIZED_USERS \in SetsAtStartup
    /\ _alert_chats = {}
    /\ FLASK_AUTHORIZED_USERS = {}
    /\ web_pc = [ t \in Callers |-> "idle" ]
    /\ web_user = [ t \in Callers |-> 0 ]
    /\ update = NoUpdate
    /\ sent = NoSent

\* the web app starts
WebInit ==
    /\ AUTHORIZED_USERS = {}
    /\ _alert_chats = {}
    /\ FLASK_AUTHORIZED_USERS \in SetsAtStartup
    /\ web_pc = [ t \in Callers |-> "idle" ]
    /\ web_user = [ t \in Callers |-> 0 ]
    /\ update = NoUpdate
    /\ sent = NoSent

\* telegram_bot.py:619-622: the polling loop takes the next update; the
\* updates are handled one after the other
poll_update(user, text) ==
    /\ update = NoUpdate
    /\ update' = [ user |-> user, text |-> text ]
    /\ UNCHANGED << AUTHORIZED_USERS, _alert_chats, FLASK_AUTHORIZED_USERS, web_pc,
                    web_user, sent >>
    /\ UNCHANGED << cacheVars, scoreVars, sendVars >>

\* telegram_bot.py:435-473
process_update ==
    /\ update # NoUpdate
    /\ update' = NoUpdate
    /\ IF ~IsCommand(update.text)
       THEN \* lines 447-448
            UNCHANGED << AUTHORIZED_USERS, _alert_chats, _cache, sent >>
       ELSE LET auth == is_authorized(AUTHORIZED_USERS, update.user)
                cmd == update.text.cmd IN
            /\ AUTHORIZED_USERS' = auth.users
            /\ IF ~auth.ok
               THEN \* lines 451-456
                    /\ sent' = [ chat |-> update.user, kind |-> "denied",
                                 handler |-> "none" ]
                    /\ UNCHANGED << _alert_chats, _cache >>
               ELSE IF cmd = "/alert"
               THEN \* lines 464-466 and 394-412
                    /\ _alert_chats' =
                         (IF update.text.args = "on" THEN _alert_chats \cup {update.user}
                          ELSE IF update.text.args = "off"
                          THEN _alert_chats \ {update.user}
                          ELSE _alert_chats)
                    /\ sent' = [ chat |-> update.user, kind |-> "reply",
                                 handler |-> "cmd_alert" ]
                    /\ UNCHANGED _cache
               ELSE IF cmd \in DOMAIN COMMANDS
               THEN \* lines 468-470
                    /\ _cache' = SlotAfterHandler(COMMANDS[cmd], _cache)
                    /\ sent' = [ chat |-> update.user, kind |-> "reply",
                                 handler |-> COMMANDS[cmd] ]
                    /\ UNCHANGED _alert_chats
               ELSE \* lines 471-473
                    /\ sent' = [ chat |-> update.user, kind |-> "unknown",
                                 handler |-> "none" ]
                    /\ UNCHANGED << _alert_chats, _cache >>
    /\ UNCHANGED << FLASK_AUTHORIZED_USERS, web_pc, web_user >>
    /\ UNCHANGED << HAS_YFINANCE, feed, now, _cache_lock, pc, data, read_at, ret,
                    cleared, since >>
    /\ UNCHANGED << scoreVars, sendVars >>

\* flask_app.py:270-285: a request thread takes an update whose text is a
\* command (any other text returns at line 283) up to the call of
\* is_authorized.  The text is read again at line 292 only; the model draws
\* the command there.
webhook_receive(t, user) ==
    /\ web_pc[t] = "idle"
    /\ web_pc' = [web_pc EXCEPT ![t] = "test"]
    /\ web_user' = [web_user EXCEPT ![t] = user]
    /\ UNCHANGED << AUTHORIZED_USERS, _alert_chats, FLASK_AUTHORIZED_USERS, update, sent >>
    /\ UNCHANGED << cacheVars, scoreVars, sendVars >>

\* flask_app.py:93: if not AUTHORIZED_USERS
is_authorized_test(t) ==
    /\ web_pc[t] = "test"
    /\ web_pc' = [web_pc EXCEPT ![t] =
                    IF FLASK_AUTHORIZED_USERS = {} THEN "add" ELSE "member"]
    /\ UNCHANGED << AUTHORIZED_USERS, _alert_chats, FLASK_AUTHORIZED_USERS, web_user,
                    update, sent >>
    /\ UNCHANGED << cacheVars, scoreVars, sendVars >>

\* flask_app.py:94: AUTHORIZED_USERS.add(user_id)
is_authorized_add(t) ==
    /\ web_pc[t] = "add"
    /\ FLASK_AUTHORIZED_USERS' = FLASK_AUTHORIZED_USERS \cup {web_user[t]}
    /\ web_pc' = [web_pc EXCEPT ![t] = "member"]
    /\ UNCHANGED << AUTHORIZED_USERS, _alert_chats, web_user, update, sent >>
    /\ UNCHANGED << cacheVars, scoreVars, sendVars >>

\* flask_app.py:96-99 and 285-299: the membership test, then the denial or
\* the handler.  The web app has no /alert: it is a command nobody handles.
webhook_dispatch(t, cmd) ==
    /\ web_pc[t] = "member"
    /\ web_pc' = [web_pc EXCEPT ![t] = "idle"]
    /\ web_user' = [web_user EXCEPT ![t] = 0]
    /\ IF web_user[t] \notin FLASK_AUTHORIZED_USERS
       THEN /\ sent' = [ chat |-> web_user[t], kind |-> "denied", handler |-> "none" ]
            /\ UNCHANGED _cache
       ELSE IF cmd \in DOMAIN COMMANDS
       THEN /\ _cache' = SlotAfterHandler(COMMANDS[cmd], _cache)
            /\ sent' = [ chat |-> web_user[t], kind |-> "reply",
                         handler |-> COMMANDS[cmd] ]
       ELSE /\ sent' = [ chat |-> web_user[t], kind |-> "unknown", handler |-> "none" ]
            /\ UNCHANGED _cache
    /\ UNCHANGED << AUTHORIZED_USERS, _alert_chats, FLASK_AUTHORIZED_USERS, update >>
    /\ UNCHANGED << HAS_YFINANCE, feed, now, _cache_lock, pc, data, read_at, ret,
                    cleared, since >>
    /\ UNCHANGED << scoreVars, sendVars >>

(***************************************************************************)
(* Specifications.                                                         *)
(*   Spec      several callers of the cache, every instrument of the feed  *)
(*             giving the same answer                                      *)
(*   SeqSpec   one caller of the cache, feeds in which some instruments    *)
(*             answer differently from the others                          *)
(*   ScoreSpec the scorer and the pair engine on a base snapshot in which  *)
(*             up to MaxEdits entries of one instrument group are changed  *)
(*   UseSpec   one caller of the cache that passes the lists it gets to    *)
(*             the scorer and to the pair engine                           *)
(*   PermSpec  the scorer and the pair engine on a base snapshot in which  *)
(*             entries fail, are left out or change places                 *)
(*   RetrySpec one run of _retry_operation, every await of which returns   *)
(*   BotSpec   the polling bot: updates handled one after the other        *)
(*   WebSpec   the web app: NumCallers request threads                     *)
(***************************************************************************)
Init == CacheInit(UniformFeeds) /\ ScoreIdle /\ SendIdle /\ BotIdle

Next ==
    \/ \E p \in Callers : fetch_lock(p)
    \/ \E p \in Callers : fetch_check(p)
    \/ \E p \in Callers : fetch_feed(p)
    \/ \E p \in Callers : store_lock(p)
    \/ \E p \in Callers : fetch_store(p)
    \/ \E p \in Callers : clear_lock(p)
    \/ \E p \in Callers : clear_cache(p)
    \/ Tick

Spec == Init /\ [][Next]_vars

SeqInit == CacheInit(Feeds) /\ ScoreIdle /\ SendIdle /\ BotIdle

SeqNext ==
    \/ fetch_lock(1)
    \/ fetch_check(1)
    \/ fetch_feed(1)
    \/ store_lock(1)
    \/ fetch_store(1)
    \/ clear_lock(1)
    \/ clear_cache(1)
    \/ Tick

SeqSpec == SeqInit /\ [][SeqNext]_vars

ScoreSpecInit ==
    /\ CacheInit({ FeedOf({}, Nominal, Nominal) })
    /\ HAS_YFINANCE
    /\ ScoreInit
    /\ SendIdle
    /\ BotIdle

ScoreNext ==
    \/ \E key \in Keys : \E hist \in Readings[key] : set_entry(key, hist)
    \/ \E key \in Keys : fail_entry(key)
    \/ \E key \in Keys : drop_entry(key)
    \/ score_risk
    \/ score_pairs

ScoreSpec == ScoreSpecInit /\ [][ScoreNext]_vars

PermNext ==
    \/ \E key \in Keys : fail_entry(key)
    \/ \E key \in Keys : drop_entry(key)
    \/ \E i \in 1..Len(TICKER_ORDER) : swap_entries(i)
    \/ reverse_entries
    \/ score_risk
    \/ score_pairs

PermSpec == ScoreSpecInit /\ [][PermNext]_vars

RetryInit ==
    /\ CacheInit({ FeedOf({}, Nominal, Nominal) })
    /\ HAS_YFINANCE
    /\ ScoreIdle
    /\ SendInit
    /\ BotIdle

RetryNext ==
    \/ \E outcome \in OperationOutcomes : retry_call(outcome)
    \/ retry_next

\* every await of _retry_operation returns: the operation is an HTTP request
\* with a timeout whose exceptions become results
\* (telegram_sender.py:114, 169-177), the sleep is at most max_delay long
RetrySpec == RetryInit /\ [][RetryNext]_vars /\ WF_vars(RetryNext)

BotSpecInit ==
    /\ CacheInit({ FeedOf({}, Nominal, Nominal) })
    /\ ScoreIdle
    /\ SendIdle
    /\ BotInit

BotNext ==
    \/ \E user \in Users : \E text \in Texts : poll_update(user, text)
    \/ process_update
    \/ Tick

BotSpec == BotSpecInit /\ [][BotNext]_vars

WebSpecInit ==
    /\ CacheInit({ FeedOf({}, Nominal, Nominal) })
    /\ ScoreIdle
    /\ SendIdle
    /\ WebInit

WebNext ==
    \/ \E t \in Callers : \E user \in Users : webhook_receive(t, user)
    \/ \E t \in Callers : is_authorized_test(t)
    \/ \E t \in Callers : is_authorized_add(t)
    \/ \E t \in Callers : \E cmd \in {"/id", "/risk", "/refresh", "/nosuch"} :
         webhook_dispatch(t, cmd)

WebSpec == WebSpecInit /\ [][WebNext]_vars

UseInit == CacheInit(UniformFeeds) /\ ScoreIdle /\ SendIdle /\ BotIdle

UseNext ==
    \/ fetch_lock(1)
    \/ fetch_check(1)
    \/ fetch_feed(1)
    \/ store_lock(1)
    \/ fetch_store(1)
    \/ clear_lock(1)
    \/ clear_cache(1)
    \/ Tick
    \/ call_risk(1)
    \/ call_pairs(1)

UseSpec == UseInit /\ [][UseNext]_vars

(***************************************************************************)
(* Properties of the cache.                                                *)
(***************************************************************************)
\* the words of the specification for a miss: the slot is empty or the entry
\* is at least CACHE_TTL seconds old
Expired(c, t) == ~HasEntry(c) \/ t - c["market_data"].ts >= CACHE_TTL

\* caller p leaves the `with' block of lines 68-71 in this step
Checks(p) == pc[p] = "check" /\ pc'[p] # "check"

\* the last call of p was a fetch_market_data() that returned a list
Returned(p) == ret[p].kind \in {"hit", "refresh"}

\* C1, as stated.  A call goes on to the feed requests (pc = "fetch", the
\* only place where fetch_feed can run) if and only if the slot is empty
\* or the entry is at least CACHE_TTL old.  A call that finds a younger entry
\* returns the stored list and leaves the entry as it is.  A call made less
\* than CACHE_TTL after the fetched_at the caller observed before, with no
\* clear_cache() in between, observes the same fetched_at.
C1_Original ==
    [][\A p \in Callers : Checks(p) =>
         /\ (pc'[p] = "fetch") <=> Expired(_cache, now)
         /\ ~Expired(_cache, now) =>
              /\ ret'[p].kind = "hit"
              /\ ret'[p].data = _cache["market_data"].data
              /\ ret'[p].ts = _cache["market_data"].ts
              /\ _cache' = _cache
         /\ (Returned(p) /\ since[p] # "cleared" /\ now - ret[p].ts < CACHE_TTL) =>
              /\ ret'[p].kind = "hit"
              /\ ret'[p].ts = ret[p].ts
      ]_vars

\* C1, amended.  A call goes on to the feed requests if and only if yfinance
\* was imported and the slot is empty or the entry is at least CACHE_TTL
\* old.  A call that finds a younger entry returns the stored list and leaves
\* the entry as it is.  A call made less than CACHE_TTL after the fetched_at
\* the caller observed before, with no clear_cache() and no store of another
\* caller's refresh in between, observes the same fetched_at.
C1_Amended ==
    [][\A p \in Callers : Checks(p) =>
         /\ (pc'[p] = "fetch") <=> (HAS_YFINANCE /\ Expired(_cache, now))
         /\ ~Expired(_cache, now) =>
              /\ ret'[p].kind = "hit"
              /\ ret'[p].data = _cache["market_data"].data
              /\ ret'[p].ts = _cache["market_data"].ts
              /\ _cache' = _cache
         /\ (Returned(p) /\ since[p] = "same" /\ now - ret[p].ts < CACHE_TTL) =>
              /\ ret'[p].kind = "hit"
              /\ ret'[p].ts = ret[p].ts
      ]_vars

\* the third part of C1 alone, as stated: it fails although yfinance is there
C1_TwoCallsOriginal ==
    [][\A p \in Callers : Checks(p) =>
         ((Returned(p) /\ since[p] # "cleared" /\ now - ret[p].ts < CACHE_TTL) =>
              /\ ret'[p].kind = "hit"
              /\ ret'[p].ts = ret[p].ts)
      ]_vars

\* a caller whose last two calls were served inside the TTL window of one
\* entry: its last call was a hit, later than the store of the entry
C1_Witness ==
    \E p \in Callers :
        /\ ret[p].kind = "hit"
        /\ since[p] = "same"
        /\ HasEntry(_cache)
        /\ _cache["market_data"].ts = ret[p].ts
        /\ now > ret[p].ts
        /\ now - ret[p].ts < CACHE_TTL

\* C2, as stated (for an installation where yfinance was imported): the
\* first fetch_market_data() that begins after a clear_cache() has returned
\* goes on to the feed requests.
C2_Claim ==
    [][\A p \in Callers :
         (Checks(p) /\ cleared /\ HAS_YFINANCE) => pc'[p] = "fetch"]_vars

\* every entry of a returned list, against the answer of the feed: the ids
\* follow the catalog, a failed request gives the error entry, any other
\* answer the entry computed from the closes
ErrorShape(e) ==
    /\ e.status = "error"
    /\ e.current_value = 0
    /\ e.previous_value = 0
    /\ e.change_pct = 0
    /\ e.formatted_value = << "N/A" >>

NormalShape(e, closes) ==
    /\ e.status \in {"stable", "up", "down"}
    /\ e.current_value = (IF closes = << >> THEN 0 ELSE closes[Len(closes)])
    /\ e.formatted_value = format_value(e.current_value, e.unit)

Complete(list) ==
    /\ Len(list) = Len(TICKER_ORDER)
    /\ \A i \in 1..Len(list) : list[i].id = TICKER_ORDER[i]

\* C3: whatever set of instruments fails, the loop runs to its end, the
\* failed instruments get the error entry (zero values, "N/A"), the others
\* the entry computed from their closes, and the list is stored in the cache
\* and returned.
C3_PartialFailure ==
    \A p \in Callers :
        /\ pc[p] \in {"fetched", "store"} => Complete(data[p])
        /\ ret[p].kind = "refresh" =>
             /\ Complete(ret[p].data)
             /\ \A i \in 1..Len(ret[p].data) :
                  LET k == TICKER_ORDER[i] IN
                  IF feed[k].raised
                  THEN ErrorShape(ret[p].data[i])
                  ELSE NormalShape(ret[p].data[i], feed[k].close)
             /\ since[p] = "same" =>
                  /\ HasEntry(_cache)
                  /\ _cache["market_data"].data = ret[p].data
                  /\ _cache["market_data"].ts = ret[p].ts

\* a refresh returned although some instruments failed and others did not
C3_Witness ==
    \E p \in Callers :
        /\ ret[p].kind = "refresh"
        /\ since[p] = "same"
        /\ \E k1, k2 \in Keys : feed[k1].raised /\ ~feed[k2].raised

\* C4, as stated: no call of fetch_market_data() raises.
C4_Original == \A p \in Callers : ret[p].kind # "raise"

\* C4, amended: a call raises only where yfinance could not be imported
\* (and then every call that misses the cache raises); where it was
\* imported every call returns a list with one entry per instrument, and
\* the failed requests appear as status error on their entries only.
C4_Amended ==
    /\ \A p \in Callers :
         /\ ret[p].kind = "raise" => ~HAS_YFINANCE
         /\ pc[p] \in {"fetch", "fetched", "store"} => HAS_YFINANCE
         /\ Returned(p) =>
              /\ HAS_YFINANCE
              /\ Complete(ret[p].data)
              /\ \A i \in 1..Len(ret[p].data) :
                   (ret[p].data[i].status = "error") <=> feed[TICKER_ORDER[i]].raised

\* yfinance is there, every request of the feed fails, and the call returned
C4_Witness ==
    /\ HAS_YFINANCE
    /\ \E p \in Callers :
          /\ Returned(p)
          /\ \A k \in Keys : feed[k].raised

(***************************************************************************)
(* Properties of the scorer and of the pair engine on failed instruments.  *)
(***************************************************************************)
\* the snapshot has an entry for every catalog instrument and all of them
\* are error entries
AllError(list) ==
    /\ Complete(list)
    /\ \A i \in 1..Len(list) : ErrorShape(list[i])

\* the instrument has an entry in the list and its status is error
InError(list, key) ==
    /\ Found(get_item(list, key))
    /\ get_item(list, key).status = "error"

\* C5: on a snapshot in which every instrument is in error the scorer
\* returns score 0, level low and no factor.
C5_AllErrorScore ==
    ("risk" \in done /\ AllError(snapshot)) =>
        /\ risk.score = 0
        /\ risk.level = "low"
        /\ risk.factors = << >>

\* the scorer ran on the snapshot in which every instrument is in error
C5_Witness == "risk" \in done /\ AllError(snapshot)

\* the instruments each pair reads
PairNeeds ==
    [ gold_silver |-> {"gold", "silver"},
      vix_bonds_stocks |-> {"vix"},
      usd_jpy |-> {"usdjpy"},
      spx_ndx |-> {"spx", "ndx"} ]

\* C6, as stated: a pair that reads an instrument in error has no key in the
\* result, as when the instrument is absent; on a snapshot in which every
\* instrument is in error the result is empty.
C6_Claim ==
    "pairs" \in done =>
        /\ \A pair \in DOMAIN PairNeeds :
             (\E k \in PairNeeds[pair] : InError(snapshot, k)) =>
                 pair \notin DOMAIN signals
        /\ AllError(snapshot) => signals = NoSignals

\* C7, as stated: for every instrument in error, the scorer returns what it
\* returns on the snapshot without that instrument.
C7_Claim ==
    "risk" \in done =>
        \A k \in Keys :
            InError(snapshot, k) => risk = compute_risk_signal(WithoutKey(snapshot, k))

(***************************************************************************)
(* Properties of the entries built from short histories.                   *)
(***************************************************************************)
\* the entry of instrument k in the list a refresh returned
EntryOf(list, k) == list[CHOOSE i \in 1..Len(TICKER_ORDER) : TICKER_ORDER[i] = k]

\* the feed answered instrument k with a history of n closes
Closes(k, n) == ~feed[k].raised /\ Len(feed[k].close) = n

\* C8, as stated: an instrument for which the feed returns no point gets
\* the error entry, as after a failed request.
C8_Original ==
    \A p \in Callers : ret[p].kind = "refresh" =>
        \A k \in Keys : Closes(k, 0) => ErrorShape(EntryOf(ret[p].data, k))

\* C8, amended: an instrument for which the feed returns no point gets zero
\* numeric fields as after a failed request, but its status is stable, not
\* error, and its formatted_value is the rendering of 0 in its unit, not
\* "N/A".
C8_Amended ==
    \A p \in Callers : ret[p].kind = "refresh" =>
        \A k \in Keys : Closes(k, 0) =>
            LET e == EntryOf(ret[p].data, k) IN
            /\ e.current_value = 0
            /\ e.previous_value = 0
            /\ e.change_pct = 0
            /\ e.status = "stable"
            /\ e.formatted_value = format_value(0, get_unit(TICKER_MAP[k].symbol))
            /\ e.formatted_value # << "N/A" >>

\* a refresh returned and the feed had no point for some instrument
C8_Witness ==
    \E p \in Callers : ret[p].kind = "refresh" /\ \E k \in Keys : Closes(k, 0)

\* C9: with one point the entry has that point as current and previous
\* value, change 0 and status stable; with two or more points the change is
\* (current - previous) / previous * 100 on the last two closes (in
\* hundredths of a percent, hence the factor 10000).
C9_ShortHistory ==
    \A p \in Callers : ret[p].kind = "refresh" =>
        \A k \in Keys :
            LET e == EntryOf(ret[p].data, k)
                h == feed[k].close
                n == Len(h) IN
            /\ Closes(k, 1) =>
                 /\ e.current_value = h[1]
                 /\ e.previous_value = e.current_value
                 /\ e.change_pct = 0
                 /\ e.status = "stable"
            /\ (~feed[k].raised /\ n >= 2) =>
                 /\ e.current_value = h[n]
                 /\ e.previous_value = h[n - 1]
                 /\ e.change_pct * h[n - 1] = (h[n] - h[n - 1]) * 10000
                 /\ e.status # "error"

\* a refresh returned on a feed with a one-point history for one instrument
\* and two-point histories for the others
C9_Witness ==
    \E p \in Callers :
        /\ ret[p].kind = "refresh"
        /\ \E k \in Keys : Closes(k, 1)
        /\ \E k \in Keys : Closes(k, 2)

\* a refresh returned on a feed with a three-point history
C9_WitnessLong ==
    \E p \in Callers :
        ret[p].kind = "refresh" /\ \E k \in Keys : Closes(k, 3)

(***************************************************************************)
(* Properties of the level.                                                *)
(***************************************************************************)
\* C10: the level is decided by the score alone (high from 6, medium from 3
\* to 5, low up to 2) and the colour and the emoji by the level.
C10_LevelOfScore ==
    "risk" \in done =>
        /\ risk.level \in {"high", "medium", "low"}
        /\ risk.level = "high" <=> risk.score >= 6
        /\ risk.level = "medium" <=> (risk.score >= 3 /\ risk.score <= 5)
        /\ risk.level = "low" <=> risk.score <= 2
        /\ risk.level = "high" => (risk.color = "#dc3545" /\ risk.emoji = "red circle")
        /\ risk.level = "medium" => (risk.color = "#ffc107" /\ risk.emoji = "yellow circle")
        /\ risk.level = "low" => (risk.color = "#28a745" /\ risk.emoji = "green circle")

\* the scorer returned the score 6, the lowest one of the level high
C10_Witness == "risk" \in done /\ risk.score = 6 /\ risk.level = "high"

\* the scorer also returned the scores on both sides of the other breakpoint
C10_WitnessMedium == "risk" \in done /\ risk.score = 3

C10_WitnessLow == "risk" \in done /\ risk.score = 2

(***************************************************************************)
(* Properties of the factors of the scorer.                                *)
(***************************************************************************)
\* the rule families in the order in which compute_risk_signal evaluates them
FamilyOrder ==
    << "spx", "ndx", "divergence", "vix", "dxy_change", "dxy_level", "fx",
       "krwusd", "usdjpy", "krwjpy", "us10y", "gold", "silver", "copper", "btc" >>

\* the labels of the factors each family can append
FamilyLabels ==
    [ spx        |-> {"S&P500 crash", "S&P500 fall", "S&P500 weak"},
      ndx        |-> {"Nasdaq100 crash", "Nasdaq100 fall", "Nasdaq100 weak"},
      divergence |-> {"S&P-Nasdaq divergence", "index gap widening"},
      vix        |-> {"VIX very high", "VIX high", "VIX somewhat high"},
      dxy_change |-> {"dollar index surge", "dollar index rise"},
      dxy_level  |-> {"dollar very strong", "dollar strong"},
      fx         |-> {"won plunges while dollar strong", "won weak while dollar strong",
                      "won weak despite dollar weak"},
      krwusd     |-> {"won plunge vs dollar", "won weak vs dollar", "won down vs dollar",
                      "won surge vs dollar", "won strong vs dollar"},
      usdjpy     |-> {"yen plunge", "yen weak", "yen surge, carry unwind", "yen strong"},
      krwjpy     |-> {"won structurally weak", "yen strong vs won"},
      us10y      |-> {"US10Y sharp move", "US10Y move widening"},
      gold       |-> {"gold strong", "gold rise"},
      silver     |-> {"silver strong", "silver rise"},
      copper     |-> {"copper surge", "copper rise", "copper plunge"},
      btc        |-> {"BTC surge", "BTC rise"} ]

\* the position in FamilyOrder of the family a factor belongs to
FamilyRank(factor) ==
    CHOOSE i \in 1..Len(FamilyOrder) : factor.label \in FamilyLabels[FamilyOrder[i]]

\* what each family appends when it is evaluated alone on the snapshot
AloneFactors(items) ==
    LET a0 == [ score |-> 0, factors |-> << >> ] IN
    << RuleSpx(a0, items).factors, RuleNdx(a0, items).factors,
       RuleDivergence(a0, items).factors, RuleVix(a0, items).factors,
       RuleDxyChange(a0, items).factors, RuleDxyLevel(a0, items).factors,
       RuleFxDivergence(a0, items).factors, RuleKrwUsd(a0, items).factors,
       RuleUsdJpy(a0, items).factors, RuleKrwJpy(a0, items).factors,
       RuleUs10y(a0, items).factors, RuleGold(a0, items).factors,
       RuleSilver(a0, items).factors, RuleCopper(a0, items).factors,
       RuleBtc(a0, items).factors >>

RECURSIVE Flatten(_)
Flatten(lists) ==
    IF lists = << >> THEN << >> ELSE Head(lists) \o Flatten(Tail(lists))

RECURSIVE SumWeights(_)
SumWeights(factors) ==
    IF factors = << >> THEN 0 ELSE Head(factors).weight + SumWeights(Tail(factors))

\* C11: the factors are the factors of the rules that fire, one per rule,
\* in the order S&P, Nasdaq, divergence, VIX, DXY change, DXY level, FX
\* divergence, USD/KRW, USD/JPY, KRW/JPY, US10Y, gold, silver, copper, BTC,
\* and the score is the sum of the weights the factors carry.
C11_FactorsInOrder ==
    "risk" \in done =>
        LET alone == AloneFactors(snapshot) IN
        /\ \A i \in 1..Len(risk.factors) :
             \E r \in 1..Len(FamilyOrder) :
                 risk.factors[i].label \in FamilyLabels[FamilyOrder[r]]
        /\ \A i \in 1..(Len(risk.factors) - 1) :
             FamilyRank(risk.factors[i]) < FamilyRank(risk.factors[i + 1])
        /\ \A r \in 1..Len(FamilyOrder) : Len(alone[r]) <= 1
        /\ risk.factors = Flatten(alone)
        /\ risk.score = SumWeights(risk.factors)

\* the scorer ran on a snapshot on which all fifteen families fire
C11_Witness == "risk" \in done /\ Len(risk.factors) = 15 /\ risk.score = 35

\* the scorer ran on a snapshot on which some families fire and others do not
C11_WitnessSome ==
    "risk" \in done /\ Len(risk.factors) = 3 /\ Len(snapshot) = 12

(***************************************************************************)
(* The worked example of the scorer.                                       *)
(***************************************************************************)
\* C12, as stated: on the list with only S&P 500 at -3.5 %, Nasdaq 100 at
\* -1.0 % and VIX unchanged at 28 the scorer fires the S&P tier of weight 3,
\* the divergence tier of weight 2 on 2.5 and the VIX tier of weight 2, in
\* that order: score 7, level high, three factors.
C12_Original ==
    ("risk" \in done /\ snapshot = ThreeIndexSnapshot) =>
        /\ risk.score = 7
        /\ risk.level = "high"
        /\ risk.factors =
             << [ label |-> "S&P500 crash", value |-> -350, weight |-> 3 ],
                [ label |-> "S&P-Nasdaq divergence", value |-> 250, weight |-> 2 ],
                [ label |-> "VIX high", value |-> 2800, weight |-> 2 ] >>

\* C12, amended: on that list the scorer fires four rules, the Nasdaq tier
\* of weight 1 (-1.0 < -0.5) coming second: S&P +3, Nasdaq +1, divergence
\* +2, VIX +2, score 8, level high, four factors.
C12_Amended ==
    ("risk" \in done /\ snapshot = ThreeIndexSnapshot) =>
        /\ risk.score = 8
        /\ risk.level = "high"
        /\ risk.factors =
             << [ label |-> "S&P500 crash", value |-> -350, weight |-> 3 ],
                [ label |-> "Nasdaq100 weak", value |-> -100, weight |-> 1 ],
                [ label |-> "S&P-Nasdaq divergence", value |-> 250, weight |-> 2 ],
                [ label |-> "VIX high", value |-> 2800, weight |-> 2 ] >>

\* the scorer ran on that list, which holds the three instruments with the
\* values of the example and nothing else
C12_Witness ==
    /\ "risk" \in done
    /\ Len(snapshot) = 3
    /\ get_item(snapshot, "spx").change_pct = -350
    /\ get_item(snapshot, "ndx").change_pct = -100
    /\ get_item(snapshot, "vix").current_value = 2800
    /\ get_item(snapshot, "vix").change_pct = 0

(***************************************************************************)
(* The boundary of the US10Y rule.                                         *)
(***************************************************************************)
\* the absolute move of the US10Y entry of the list
Us10yMove(items) ==
    Abs(get_item(items, "us10y").current_value - get_item(items, "us10y").previous_value)

\* the factors of the list with that label
WithLabel(factors, label) ==
    { i \in 1..Len(factors) : factors[i].label = label }

C13_WitnessAbove ==
    /\ "risk" \in done
    /\ Found(get_item(snapshot, "us10y"))
    /\ Us10yMove(snapshot) = 30

(***************************************************************************)
(* The snapshot without the VIX.                                           *)
(***************************************************************************)
\* the factors of the list that do not belong to the family
RECURSIVE WithoutFamily(_, _)
WithoutFamily(factors, family) ==
    IF factors = << >> THEN << >>
    ELSE IF Head(factors).label \in FamilyLabels[family]
    THEN WithoutFamily(Tail(factors), family)
    ELSE << Head(factors) >> \o WithoutFamily(Tail(factors), family)

\* the dict without the key
DropKey(d, key) == [ k \in (DOMAIN d) \ {key} |-> d[k] ]

\* C14: for a snapshot that contains the VIX, the scorer on the snapshot
\* without the VIX returns the same factors in the same order except the
\* factor of the VIX rule, a score lower by the weight of that factor and
\* the level of that score; the pair engine returns the same map without
\* the key vix_bonds_stocks, which the map of the full snapshot has.
C14_WithoutVix ==
    (done = {"risk", "pairs"} /\ Found(get_item(snapshot, "vix"))) =>
        LET less == WithoutKey(snapshot, "vix")
            r == compute_risk_signal(less)
            sg == calculate_pair_trading_signals(less) IN
        /\ r.factors = WithoutFamily(risk.factors, "vix")
        /\ r.score = SumWeights(WithoutFamily(risk.factors, "vix"))
        /\ risk.score - r.score = SumWeights(risk.factors) - SumWeights(r.factors)
        /\ r.level = LevelOf(r.score).level
        /\ "vix_bonds_stocks" \in DOMAIN signals
        /\ "vix_bonds_stocks" \notin DOMAIN sg
        /\ sg = DropKey(signals, "vix_bonds_stocks")

\* both functions ran on a snapshot in which the VIX rule fires next to
\* other rules and other pairs
C14_Witness ==
    /\ done = {"risk", "pairs"}
    /\ Found(get_item(snapshot, "vix"))
    /\ \E i \in 1..Len(risk.factors) : risk.factors[i].label \in FamilyLabels["vix"]
    /\ Len(risk.factors) >= 3
    /\ Cardinality(DOMAIN signals) = 4

(***************************************************************************)
(* Properties of the pair engine.                                          *)
(***************************************************************************)
\* the current value and the change of an instrument of the list
ValueOf(items, key) == get_item(items, key).current_value

ChangeOf(items, key) == get_item(items, key).change_pct

\* the instruments of the pair all have an entry in the list
PairPresent(items, pair) ==
    \A k \in PairNeeds[pair] : Found(get_item(items, k))

\* C15: with gold and silver present and silver above 0, the grade of
\* gold_silver is strong_buy above 90, buy above 82 up to 90, strong_sell
\* below 60, sell from 60 to below 68 and neutral exactly from 68 to 82,
\* the ratio being gold / silver; gold 2000 with silver 20 gives strong_buy.
C15_GoldSilverLadder ==
    ("pairs" \in done /\ PairPresent(snapshot, "gold_silver")
                      /\ ValueOf(snapshot, "silver") > 0) =>
        LET g == ValueOf(snapshot, "gold")
            sv == ValueOf(snapshot, "silver")
            lv == signals["gold_silver"].level IN
        /\ signals["gold_silver"].ratio.num * sv = g * signals["gold_silver"].ratio.den
        /\ lv = "strong_buy" <=> g > 90 * sv
        /\ lv = "buy" <=> (g > 82 * sv /\ g <= 90 * sv)
        /\ lv = "strong_sell" <=> g < 60 * sv
        /\ lv = "sell" <=> (g >= 60 * sv /\ g < 68 * sv)
        /\ lv = "neutral" <=> (g >= 68 * sv /\ g <= 82 * sv)
        /\ (g = 200000 /\ sv = 2000) => lv = "strong_buy"

\* the pair engine ran on gold 2000 and silver 20
C15_Witness ==
    /\ "pairs" \in done
    /\ PairPresent(snapshot, "gold_silver")
    /\ ValueOf(snapshot, "gold") = 200000
    /\ ValueOf(snapshot, "silver") = 2000

\* the pair engine also ran on the ratios 82 and 68, the ends of the band
C15_WitnessUpperEnd ==
    /\ "pairs" \in done
    /\ PairPresent(snapshot, "gold_silver")
    /\ ValueOf(snapshot, "gold") = 205000
    /\ ValueOf(snapshot, "silver") = 2500

C15_WitnessLowerEnd ==
    /\ "pairs" \in done
    /\ PairPresent(snapshot, "gold_silver")
    /\ ValueOf(snapshot, "gold") = 204000
    /\ ValueOf(snapshot, "silver") = 3000

\* C16: with the VIX present, the grade of vix_bonds_stocks is
\* strong_buy_stocks when level > 35 or (level > 30 and change > 10), else
\* buy_stocks when level > 25 or (level > 22 and change > 5), else
\* strong_sell_stocks when level < 12, else sell_stocks when level < 15,
\* else neutral; neutral is returned only for levels from 15 to 25.
C16_VixLadder ==
    ("pairs" \in done /\ PairPresent(snapshot, "vix_bonds_stocks")) =>
        LET lvl == ValueOf(snapshot, "vix")
            chg == ChangeOf(snapshot, "vix")
            strong == lvl > 3500 \/ (lvl > 3000 /\ chg > 1000)
            moderate == lvl > 2500 \/ (lvl > 2200 /\ chg > 500)
            lv == signals["vix_bonds_stocks"].level IN
        /\ lv = "strong_buy_stocks" <=> strong
        /\ lv = "buy_stocks" <=> (~strong /\ moderate)
        /\ lv = "strong_sell_stocks" <=> (~strong /\ ~moderate /\ lvl < 1200)
        /\ lv = "sell_stocks" <=> (~strong /\ ~moderate /\ lvl >= 1200 /\ lvl < 1500)
        /\ lv = "neutral" <=> (~strong /\ ~moderate /\ lvl >= 1500)
        /\ lv = "neutral" => (lvl >= 1500 /\ lvl <= 2500)
        /\ signals["vix_bonds_stocks"].vix_level = lvl

\* the pair engine ran on a VIX inside the band that rose by more than 5 %,
\* which the second step of the ladder takes out of neutral
C16_Witness ==
    /\ "pairs" \in done
    /\ PairPresent(snapshot, "vix_bonds_stocks")
    /\ ValueOf(snapshot, "vix") = 2400
    /\ ChangeOf(snapshot, "vix") = 2000

\* the pair engine also ran on the levels 25 and 15, the ends of the band,
\* and on a level above 30 that rose by more than 10 %
C16_WitnessUpperEnd ==
    "pairs" \in done /\ PairPresent(snapshot, "vix_bonds_stocks")
                     /\ ValueOf(snapshot, "vix") = 2500

C16_WitnessLowerEnd ==
    "pairs" \in done /\ PairPresent(snapshot, "vix_bonds_stocks")
                     /\ ValueOf(snapshot, "vix") = 1500

C16_WitnessJump ==
    "pairs" \in done /\ PairPresent(snapshot, "vix_bonds_stocks")
                     /\ ValueOf(snapshot, "vix") = 3200
                     /\ ChangeOf(snapshot, "vix") = 2800

\* C17: with S&P 500 and Nasdaq 100 present, the grade of spx_ndx is decided
\* by gap = change(Nasdaq) - change(S&P): strong_buy_spx above 3.0, buy_spx
\* above 1.5, strong_buy_ndx below -3.0, buy_ndx below -1.5, and neutral
\* exactly from -1.5 to 1.5.
C17_SpxNdxLadder ==
    ("pairs" \in done /\ PairPresent(snapshot, "spx_ndx")) =>
        LET gap == ChangeOf(snapshot, "ndx") - ChangeOf(snapshot, "spx")
            lv == signals["spx_ndx"].level IN
        /\ signals["spx_ndx"].performance_gap = gap
        /\ lv = "strong_buy_spx" <=> gap > 300
        /\ lv = "buy_spx" <=> (gap > 150 /\ gap <= 300)
        /\ lv = "strong_buy_ndx" <=> gap < -300
        /\ lv = "buy_ndx" <=> (gap < -150 /\ gap >= -300)
        /\ lv = "neutral" <=> (gap >= -150 /\ gap <= 150)

\* the pair engine ran on a gap of exactly 1.5, the upper end of the band
C17_Witness ==
    /\ "pairs" \in done
    /\ PairPresent(snapshot, "spx_ndx")
    /\ ChangeOf(snapshot, "ndx") - ChangeOf(snapshot, "spx") = 150

\* the pair engine also ran on the gaps -1.5, 3.0 and -3.0 and on gaps
\* beyond them on both sides
C17_WitnessLowerEnd ==
    "pairs" \in done /\ PairPresent(snapshot, "spx_ndx")
        /\ ChangeOf(snapshot, "ndx") - ChangeOf(snapshot, "spx") = -150

C17_WitnessAbove ==
    "pairs" \in done /\ PairPresent(snapshot, "spx_ndx")
        /\ ChangeOf(snapshot, "ndx") - ChangeOf(snapshot, "spx") > 300

C17_WitnessBelow ==
    "pairs" \in done /\ PairPresent(snapshot, "spx_ndx")
        /\ ChangeOf(snapshot, "ndx") - ChangeOf(snapshot, "spx") < -300

\* the five labels of each pair
PairVocabulary ==
    [ gold_silver |-> {"strong_buy", "buy", "neutral", "sell", "strong_sell"},
      vix_bonds_stocks |-> {"strong_buy_stocks", "buy_stocks", "neutral",
                            "sell_stocks", "strong_sell_stocks"},
      usd_jpy |-> {"strong_buy_jpy", "buy_jpy", "neutral", "sell_jpy",
                   "strong_sell_jpy"},
      spx_ndx |-> {"strong_buy_spx", "buy_spx", "neutral", "buy_ndx",
                   "strong_buy_ndx"} ]

\* C18: the keys of the result are among gold_silver, vix_bonds_stocks,
\* usd_jpy and spx_ndx; a key is there if and only if every instrument of
\* its pair has an entry in the snapshot; the level of a pair is one of the
\* five labels of that pair.
C18_PairKeys ==
    "pairs" \in done =>
        /\ DOMAIN signals \subseteq DOMAIN PairNeeds
        /\ \A pair \in DOMAIN PairNeeds :
             pair \in DOMAIN signals <=> PairPresent(snapshot, pair)
        /\ \A pair \in DOMAIN signals :
             signals[pair].level \in PairVocabulary[pair]

\* the pair engine ran on a snapshot that has the instruments of some pairs
\* and lacks an instrument of another
C18_Witness ==
    /\ "pairs" \in done
    /\ \E pair \in DOMAIN PairNeeds : pair \in DOMAIN signals
    /\ \E pair \in DOMAIN PairNeeds :
         /\ pair \notin DOMAIN signals
         /\ \E k \in PairNeeds[pair] : Found(get_item(snapshot, k))

\* the pair engine also ran on a snapshot in which every instrument is in
\* error, and on the empty list
C18_WitnessAllError == "pairs" \in done /\ AllError(snapshot)

C18_WitnessEmpty == "pairs" \in done /\ snapshot = << >>

(***************************************************************************)
(* The two conditions of the FX divergence block.                          *)
(***************************************************************************)
\* the changes from -3.00 % to +3.00 % in steps of 0.01 %
ChangeGrid == -300..300

\* the list with another change for the instrument
WithChange(items, key, chg) ==
    [ i \in 1..Len(items) |->
        IF items[i].id = key THEN [ items[i] EXCEPT !.change_pct = chg ] ELSE items[i] ]

\* what the FX divergence block appends on the list when the dollar index
\* and KRW/JPY have these changes
FxFactors(items, dxy_chg, krwjpy_chg) ==
    RuleFxDivergence([ score |-> 0, factors |-> << >> ],
                     WithChange(WithChange(items, "dxy", dxy_chg),
                                "krwjpy", krwjpy_chg)).factors

\* the list has the four instruments the FX divergence block asks for
FxPresent(items) ==
    \A k \in {"dxy", "krwusd", "usdjpy", "krwjpy"} : Found(get_item(items, k))

\* the labels of the first condition and the label of the second
FxStrongLabels == {"won plunges while dollar strong", "won weak while dollar strong"}

FxWeakLabels == {"won weak despite dollar weak"}

\* C19, as stated: the two conditions can fire together; a snapshot with the
\* four instruments of the block has a change of the dollar index and a
\* change of KRW/JPY for which the condition on a rising dollar and the
\* condition on a falling dollar both fire in one evaluation.
C19_Original ==
    ("risk" \in done /\ FxPresent(snapshot)) =>
        \E dxy_chg \in ChangeGrid : \E krwjpy_chg \in ChangeGrid :
            LET f == FxFactors(snapshot, dxy_chg, krwjpy_chg) IN
            /\ \E i \in 1..Len(f) : f[i].label \in FxStrongLabels
            /\ \E i \in 1..Len(f) : f[i].label \in FxWeakLabels

\* C19, amended: the two conditions exclude each other (the first needs a
\* dollar change above 0.3, the second one below -0.5), so the block appends
\* at most one factor per evaluation; the first condition weighs 2 or 1,
\* the second 1.
C19_Amended ==
    "risk" \in done =>
        LET f == risk.factors
            strong == { i \in 1..Len(f) : f[i].label \in FxStrongLabels }
            weak == { i \in 1..Len(f) : f[i].label \in FxWeakLabels } IN
        /\ strong = {} \/ weak = {}
        /\ Cardinality(strong \cup weak) <= 1
        /\ \A i \in strong : f[i].weight \in {1, 2}
        /\ \A i \in weak : f[i].weight = 1
        /\ (strong # {}) => ChangeOf(snapshot, "dxy") > 30
        /\ (weak # {}) => ChangeOf(snapshot, "dxy") < -50
        /\ (strong \cup weak # {}) => FxPresent(snapshot)

\* the scorer ran on a snapshot on which the condition on a falling dollar
\* fires
C19_Witness ==
    /\ "risk" \in done
    /\ \E i \in 1..Len(risk.factors) : risk.factors[i].label \in FxWeakLabels

\* the scorer also ran on snapshots on which the condition on a rising
\* dollar fires, with each of its weights
C19_WitnessStrong ==
    /\ "risk" \in done
    /\ \E i \in 1..Len(risk.factors) :
         risk.factors[i].label = "won plunges while dollar strong"

C19_WitnessMild ==
    /\ "risk" \in done
    /\ \E i \in 1..Len(risk.factors) :
         risk.factors[i].label = "won weak while dollar strong"

(***************************************************************************)
(* The tiers of a rule family.                                             *)
(***************************************************************************)
Tier(label, weight, met) == [ label |-> label, weight |-> weight, met |-> met ]

\* the change and the value of an instrument, 0 when the list has no entry
\* for it (no tier is met then: see Has in Ladders)
ChgOr0(items, key) ==
    IF Found(get_item(items, key)) THEN get_item(items, key).change_pct ELSE 0

ValOr0(items, key) ==
    IF Found(get_item(items, key)) THEN get_item(items, key).current_value ELSE 0

PrevOr0(items, key) ==
    IF Found(get_item(items, key)) THEN get_item(items, key).previous_value ELSE 0

\* the tiers of each family with, for the snapshot, whether the threshold of
\* the tier is met
Ladders(items) ==
    LET Has(k) == Found(get_item(items, k))
        c(k) == ChgOr0(items, k)
        div == Abs(c("spx") - c("ndx"))
        vix == ValOr0(items, "vix")
        dxl == ValOr0(items, "dxy")
        mv == Abs(ValOr0(items, "us10y") - PrevOr0(items, "us10y"))
    IN
    [ spx |-> { Tier("S&P500 crash", 3, Has("spx") /\ c("spx") < -300),
                Tier("S&P500 fall", 2, Has("spx") /\ c("spx") < -150),
                Tier("S&P500 weak", 1, Has("spx") /\ c("spx") < -50) },
      ndx |-> { Tier("Nasdaq100 crash", 3, Has("ndx") /\ c("ndx") < -300),
                Tier("Nasdaq100 fall", 2, Has("ndx") /\ c("ndx") < -150),
                Tier("Nasdaq100 weak", 1, Has("ndx") /\ c("ndx") < -50) },
      divergence |->
              { Tier("S&P-Nasdaq divergence", 2, Has("spx") /\ Has("ndx") /\ div > 200),
                Tier("index gap widening", 1, Has("spx") /\ Has("ndx") /\ div > 100) },
      vix |-> { Tier("VIX very high", 3, Has("vix") /\ vix > 3500),
                Tier("VIX high", 2, Has("vix") /\ vix > 2500),
                Tier("VIX somewhat high", 1, Has("vix") /\ vix > 1500) },
      dxy_change |->
              { Tier("dollar index surge", 2, Has("dxy") /\ c("dxy") > 100),
                Tier("dollar index rise", 1, Has("dxy") /\ c("dxy") > 50) },
      dxy_level |->
              { Tier("dollar very strong", 2, Has("dxy") /\ dxl > 11000),
                Tier("dollar strong", 1, Has("dxy") /\ dxl > 10500) },
      krwusd |-> { Tier("won plunge vs dollar", 3, Has("krwusd") /\ c("krwusd") > 200),
                   Tier("won weak vs dollar", 2, Has("krwusd") /\ c("krwusd") > 100),
                   Tier("won down vs dollar", 1, Has("krwusd") /\ c("krwusd") > 50),
                   Tier("won surge vs dollar", 2, Has("krwusd") /\ c("krwusd") < -200),
                   Tier("won strong vs dollar", 1, Has("krwusd") /\ c("krwusd") < -100) },
      usdjpy |-> { Tier("yen plunge", 2, Has("usdjpy") /\ c("usdjpy") > 200),
                   Tier("yen weak", 1, Has("usdjpy") /\ c("usdjpy") > 100),
                   Tier("yen surge, carry unwind", 3, Has("usdjpy") /\ c("usdjpy") < -200),
                   Tier("yen strong", 2, Has("usdjpy") /\ c("usdjpy") < -100) },
      krwjpy |-> { Tier("won structurally weak", 2, Has("krwjpy") /\ c("krwjpy") < -200),
                   Tier("yen strong vs won", 1, Has("krwjpy") /\ c("krwjpy") < -100) },
      us10y |-> { Tier("US10Y sharp move", 2, Has("us10y") /\ mv > 20),
                  Tier("US10Y move widening", 1, Has("us10y") /\ mv > 10) },
      gold |-> { Tier("gold strong", 2, Has("gold") /\ c("gold") > 200),
                 Tier("gold rise", 1, Has("gold") /\ c("gold") > 100) },
      silver |-> { Tier("silver strong", 2, Has("silver") /\ c("silver") > 300),
                   Tier("silver rise", 1, Has("silver") /\ c("silver") > 150) },
      copper |-> { Tier("copper surge", 2, Has("copper") /\ c("copper") > 300),
                   Tier("copper rise", 1, Has("copper") /\ c("copper") > 150),
                   Tier("copper plunge", 1, Has("copper") /\ c("copper") < -300) },
      btc |-> { Tier("BTC surge", 2, Has("btc") /\ c("btc") > 600),
                Tier("BTC rise", 1, Has("btc") /\ c("btc") > 300) } ]

\* the factors of the list that belong to the family
OfFamily(factors, family) ==
    { i \in 1..Len(factors) : factors[i].label \in FamilyLabels[family] }

\* C20: in each of the fourteen tiered families at most one tier fires per
\* evaluation; one fires exactly when the threshold of some tier is met, and
\* it is the most severe of the tiers whose threshold is met; the DXY change
\* and the DXY level are two families, each with its own factor.
C20_OneTierPerFamily ==
    "risk" \in done =>
        LET ladders == Ladders(snapshot) IN
        \A family \in DOMAIN ladders :
            LET met == { t \in ladders[family] : t.met }
                fired == OfFamily(risk.factors, family) IN
            /\ Cardinality(fired) <= 1
            /\ fired = {} <=> met = {}
            /\ \A i \in fired :
                 \E t \in met :
                     /\ t.label = risk.factors[i].label
                     /\ t.weight = risk.factors[i].weight
                     /\ \A u \in met : u.weight <= t.weight
                     /\ \A u \in met : u.weight = t.weight => u = t

\* the scorer ran on a snapshot on which the DXY change family and the DXY
\* level family both fire
C20_Witness ==
    /\ "risk" \in done
    /\ OfFamily(risk.factors, "dxy_change") # {}
    /\ OfFamily(risk.factors, "dxy_level") # {}

\* the scorer also ran on a snapshot on which a family has the thresholds of
\* three tiers met, and on one on which a family fires a tier that is not
\* its first
C20_WitnessNested ==
    /\ "risk" \in done
    /\ LET ladders == Ladders(snapshot) IN
       \E family \in DOMAIN ladders :
           Cardinality({ t \in ladders[family] : t.met }) = 3

C20_WitnessLowerTier ==
    /\ "risk" \in done
    /\ \E i \in 1..Len(risk.factors) :
         risk.factors[i].label \in {"won strong vs dollar", "yen strong", "copper plunge"}

(***************************************************************************)
(* Properties of the snapshot and of the cache slot under concurrency.     *)
(***************************************************************************)
\* the positions of the list that hold an entry of that instrument
PositionsOf(list, key) == { i \in 1..Len(list) : list[i].id = key }

\* one entry per catalog instrument, and the i-th entry is the i-th of the
\* catalog with its name and ticker
InCatalogOrder(list) ==
    /\ \A k \in Keys : Cardinality(PositionsOf(list, k)) = 1
    /\ Len(list) = Len(TICKER_ORDER)
    /\ \A i \in 1..Len(list) :
         /\ list[i].id = TICKER_ORDER[i]
         /\ list[i].name = TICKER_MAP[TICKER_ORDER[i]].name
         /\ list[i].ticker = TICKER_MAP[TICKER_ORDER[i]].ticker

\* caller p is between the TTL test that missed and the store of its list
Refreshing(p) == pc[p] \in {"fetch", "fetched", "store"}

\* C21: every snapshot produced by a refresh (the list the loop ends with,
\* the list the call returns and the list it stores) has exactly one entry
\* per TICKER_MAP instrument, in the declaration order of TICKER_MAP,
\* whichever instruments failed.
C21_CatalogOrder ==
    /\ \A p \in Callers :
         /\ pc[p] \in {"fetched", "store"} => InCatalogOrder(data[p])
         /\ ret[p].kind = "refresh" => InCatalogOrder(ret[p].data)
    /\ HasEntry(_cache) => InCatalogOrder(_cache["market_data"].data)

\* a refresh returned its list although the requests of some instruments
\* failed and those of instruments after them in the catalog did not
C21_Witness ==
    \E p \in Callers :
        /\ ret[p].kind = "refresh"
        /\ \E i, j \in 1..Len(TICKER_ORDER) :
             /\ i < j
             /\ feed[TICKER_ORDER[i]].raised
             /\ ~feed[TICKER_ORDER[j]].raised
             /\ ret[p].data[i].status = "error"
             /\ ret[p].data[j].status # "error"

\* the slot has no key, or the one key "market_data" with a list that has an
\* entry for every catalog instrument and the time of its store
WholeSlot(c) ==
    \/ c = EmptyCache
    \/ /\ DOMAIN c = {"market_data"}
       /\ InCatalogOrder(c["market_data"].data)
       /\ c["market_data"].ts \in 0..now

\* the local list of a caller whose loop has made some requests, not all
PartlyBuilt(p) ==
    /\ pc[p] = "fetch"
    /\ Len(data[p]) \in 1..(Len(TICKER_ORDER) - 1)

\* C22: under every interleaving of fetch_market_data() and clear_cache()
\* calls the slot is empty or holds one complete snapshot with its
\* timestamp; the slot changes only in a step of the caller that holds the
\* lock, which either empties it or puts its whole finished list with the
\* current time; and every list a call returned is complete, also while
\* another caller's list is partly built.
C22_WholeSnapshot ==
    /\ [](/\ WholeSlot(_cache)
          /\ \A p \in Callers : Returned(p) => InCatalogOrder(ret[p].data))
    /\ [][_cache' # _cache =>
            \E p \in Callers :
                /\ _cache_lock = {p}
                /\ \/ pc[p] = "clear" /\ _cache' = EmptyCache
                   \/ /\ pc[p] = "store"
                      /\ InCatalogOrder(data[p])
                      /\ _cache' = [ k \in {"market_data"} |->
                                       NewEntry(data[p], now, read_at[p]) ]
         ]_vars

\* a caller was served from the slot while the list of another caller's
\* refresh was partly built
C22_Witness ==
    \E p, q \in Callers :
        /\ PartlyBuilt(p)
        /\ HasEntry(_cache)
        /\ pc[q] = "idle"
        /\ ret[q].kind = "hit"
        /\ ret[q].ts = _cache["market_data"].ts

\* C23: there is no single-flight.  A caller that finds the entry missing
\* or expired (yfinance imported) starts its own refresh also when another
\* caller is in the middle of one, and that other refresh goes on; a refresh
\* ends in no other way than by writing the slot; and after each write the
\* entry is the list, the time and the feed reading of the caller that wrote,
\* whatever entry was there before.
C23_NoSingleFlight ==
    [][\A p \in Callers :
         /\ (/\ Checks(p)
             /\ HAS_YFINANCE
             /\ Expired(_cache, now)
             /\ \E q \in Callers \ {p} : Refreshing(q))
            => /\ pc'[p] = "fetch"
               /\ \A q \in Callers \ {p} : Refreshing(q) => pc'[q] = pc[q]
         /\ (Refreshing(p) /\ pc'[p] \notin {"fetch", "fetched", "store"})
            => /\ pc[p] = "store"
               /\ _cache' = [ k \in {"market_data"} |->
                                NewEntry(data[p], now, read_at[p]) ]
               /\ ret'[p] = [ kind |-> "refresh", data |-> data[p], ts |-> now ]
      ]_vars

\* two callers are running the feed loop at the same time, each with a
\* partly built list of its own
C23_Witness ==
    \E p, q \in Callers :
        /\ p # q
        /\ PartlyBuilt(p)
        /\ PartlyBuilt(q)

\* two refreshes that overlapped have both written: the entry in the slot is
\* that of the caller that wrote last, although its list was read from the
\* feed before the other caller wrote
C23_WitnessLastWriter ==
    \E p, q \in Callers :
        /\ p # q
        /\ ret[p].kind = "refresh"
        /\ ret[q].kind = "refresh"
        /\ since[p] = "stored"
        /\ since[q] = "same"
        /\ HasEntry(_cache)
        /\ _cache["market_data"].ts = ret[q].ts
        /\ _cache["market_data"].ts > ret[p].ts
        /\ _cache["market_data"].read <= ret[p].ts

\* caller p is inside one of the `with _cache_lock' blocks
InLockedBlock(p) == pc[p] \in {"check", "store", "clear"}

\* C24: the lock is held by at most one caller, and only by a caller inside
\* the read-check block (lines 68-71), the write-replace block (lines
\* 118-119) or clear_cache; no caller holds it while its feed loop runs.
\* So while the other callers are idle or in their feed loops the lock is
\* free for a call that begins, and a caller in the read-check that finds an
\* unexpired entry returns it in its next step, whatever the others do.
C24_LockNotHeldDuringFeed ==
    /\ Cardinality(_cache_lock) <= 1
    /\ \A p \in Callers :
         /\ (p \in _cache_lock) <=> InLockedBlock(p)
         /\ pc[p] \in {"fetch", "fetched"} => p \notin _cache_lock
         /\ (pc[p] = "idle" /\ \A q \in Callers \ {p} : ~InLockedBlock(q))
            => ENABLED fetch_lock(p)
         /\ (pc[p] = "check" /\ CacheHit(_cache, now))
            => ENABLED (fetch_check(p) /\ pc'[p] = "idle" /\ ret'[p].kind = "hit")

\* a caller is in the read-check with an unexpired entry before it while
\* another caller's feed loop is running
C24_Witness ==
    \E p, q \in Callers :
        /\ p # q
        /\ pc[p] = "fetch"
        /\ pc[q] = "check"
        /\ q \in _cache_lock
        /\ CacheHit(_cache, now)

\* a step that replaces one entry of the slot by another
Replaces == HasEntry(_cache) /\ HasEntry(_cache') /\ _cache' # _cache

\* C30, as stated: when a refresh replaces an entry, the list it writes was
\* read from the feed no earlier than the list of the entry it overwrites,
\* and the ts of the entry does not decrease.
C30_Claim ==
    [][Replaces =>
         /\ _cache'["market_data"].read >= _cache["market_data"].read
         /\ _cache'["market_data"].ts >= _cache["market_data"].ts
      ]_vars

\* the second half of C30 alone: the ts of the entry does not decrease
C30_TsNeverDecreases ==
    [][Replaces => _cache'["market_data"].ts >= _cache["market_data"].ts]_vars

\* an entry was replaced by a list that was read from the feed earlier
C30_StaleOverwrite ==
    \E p, q \in Callers :
        /\ p # q
        /\ ret[p].kind = "refresh"
        /\ ret[q].kind = "refresh"
        /\ since[p] = "stored"
        /\ since[q] = "same"
        /\ HasEntry(_cache)
        /\ _cache["market_data"].read < ret[p].ts
        /\ _cache["market_data"].ts > ret[p].ts

(***************************************************************************)
(* Bounds of the risk score.                                               *)
(***************************************************************************)
\* the factors of the two branches of the FX divergence block
FxBranchFactors(factors, labels) ==
    { i \in 1..Len(factors) : factors[i].label \in labels }

\* C28: for every snapshot with unique ids the score is the sum of the
\* weights of the factors and lies in 0..35, there are at most 15 factors,
\* and the factors do not contain one of each FX-divergence branch.
C28_ScoreBounds ==
    "risk" \in done =>
        /\ risk.score = SumWeights(risk.factors)
        /\ risk.score >= 0
        /\ risk.score <= 35
        /\ Len(risk.factors) <= 15
        /\ \A i \in 1..Len(risk.factors) : risk.factors[i].weight >= 1
        /\ \/ FxBranchFactors(risk.factors, FxStrongLabels) = {}
           \/ FxBranchFactors(risk.factors, FxWeakLabels) = {}

\* the bound is attained: a snapshot scores 35 with 15 factors, one of them
\* of the strong-dollar FX branch
C28_Witness ==
    /\ "risk" \in done
    /\ risk.score = 35
    /\ Len(risk.factors) = 15
    /\ FxBranchFactors(risk.factors, FxStrongLabels) # {}

\* the weak-dollar FX branch added to a score
C28_WitnessWeakBranch ==
    /\ "risk" \in done
    /\ FxBranchFactors(risk.factors, FxWeakLabels) # {}
    /\ risk.score >= 2

(***************************************************************************)
(* The scorer and the pair engine between cache operations.                *)
(***************************************************************************)
\* a step in which one of the two functions was called
Scores == risk' # risk \/ signals' # signals \/ done' # done \/ snapshot' # snapshot

\* C25: a call of compute_risk_signal or calculate_pair_trading_signals
\* leaves the list it is given as fetch_market_data returned it, leaves the
\* slot (data and ts), the feed and the position of every caller unchanged,
\* so no feed request is made and a later fetch returns what it would have
\* returned; a second call on the same list gives the same result, and a
\* hit that follows returns the list that was scored.
C25_SideEffectFree ==
    /\ [][Scores =>
            /\ UNCHANGED cacheVars
            /\ \E p \in Callers : Returned(p) /\ snapshot' = ret[p].data
            /\ ("risk" \in done /\ snapshot' = snapshot) => risk' = risk
            /\ ("pairs" \in done /\ snapshot' = snapshot) => signals' = signals
         ]_vars
    /\ [][\A p \in Callers :
            (Checks(p) /\ CacheHit(_cache, now) /\ Returned(p) /\ since[p] = "same"
             /\ ret[p].data = snapshot /\ done # {})
            => ret'[p].data = snapshot
         ]_vars

\* both functions ran on the list a refresh returned, some factor fired, and
\* the caller's next fetch is about to be served from the slot
C25_Witness ==
    /\ done = {"risk", "pairs"}
    /\ risk.score > 0
    /\ DOMAIN signals # {}
    /\ pc[1] = "check"
    /\ CacheHit(_cache, now)
    /\ _cache["market_data"].data = snapshot

\* the two functions ran on a list in which every entry is an error entry
C25_WitnessErrors ==
    /\ done = {"risk", "pairs"}
    /\ AllError(snapshot)
    /\ HasEntry(_cache)

(***************************************************************************)
(* The order of the entries.                                               *)
(***************************************************************************)
\* the entries of the list in the order of the catalog
RECURSIVE InCatalogOrderFrom(_, _)
InCatalogOrderFrom(items, i) ==
    IF i > Len(TICKER_ORDER) THEN << >>
    ELSE LET at == PositionsOf(items, TICKER_ORDER[i]) IN
         (IF at = {} THEN << >> ELSE << items[CHOOSE j \in at : TRUE] >>)
         \o InCatalogOrderFrom(items, i + 1)

SortedByCatalog(items) == InCatalogOrderFrom(items, 1)

UniqueIds(items) == \A k \in Keys : Cardinality(PositionsOf(items, k)) <= 1

\* C29: for a list with unique ids the risk assessment (score, level and
\* the factors in their order) and the pair-signal map are those of the same
\* entries put in catalog order, wherever the entries stand in the list.
C29_OrderIndependent ==
    UniqueIds(snapshot) =>
        /\ "risk" \in done => risk = compute_risk_signal(SortedByCatalog(snapshot))
        /\ "pairs" \in done =>
             signals = calculate_pair_trading_signals(SortedByCatalog(snapshot))

\* both functions ran on a list whose entries are not in catalog order, with
\* a factor of the risk score and a pair signal
C29_Witness ==
    /\ done = {"risk", "pairs"}
    /\ UniqueIds(snapshot)
    /\ snapshot # SortedByCatalog(snapshot)
    /\ risk.score > 0
    /\ DOMAIN signals # {}

\* the list in which every rule fires, turned around: 35 points
C29_WitnessReversed ==
    /\ "risk" \in done
    /\ Len(snapshot) = Len(TICKER_ORDER)
    /\ \A i \in 1..Len(snapshot) : snapshot[i].id = TICKER_ORDER[Len(snapshot) + 1 - i]
    /\ risk.score = 35

(***************************************************************************)
(* The retries of the sender.                                              *)
(***************************************************************************)
\* the phrases the claim lists as fatal
C27_FatalPhrases == { T_Unauthorized, T_Forbidden, T_chat_not_found, T_bot_was_blocked }

\* the call returned a dict with ok true
GaveOk(o) == o.kind = "result" /\ o.ok

\* the call returned a dict, ok not true, whose description contains a fatal
\* phrase
GaveFatal(o) ==
    /\ o.kind = "result"
    /\ ~o.ok
    /\ \E f \in C27_FatalPhrases : Contains(o.description, f)

C27_WitnessSuccess ==
    /\ rpc = "done"
    /\ result.success
    /\ result.retry_count = 2
    /\ Len(outcomes) = 3

\* a fatal description at the second call, with calls left
C27_WitnessFatal ==
    /\ rpc = "done"
    /\ Len(outcomes) = 2
    /\ GaveFatal(outcomes[2])
    /\ retry_config.max_retries >= 2
    /\ result.retry_count = 1

\* an exception whose text is a fatal phrase is tried again
C27_WitnessRaisedFatalPhrase ==
    /\ Len(outcomes) >= 2
    /\ outcomes[1] = Raises(T_Unauthorized)

(***************************************************************************)
(* Authorization in the two command front ends.                            *)
(***************************************************************************)
\* the polling bot finishes an update whose text is a command
BotHandles == update # NoUpdate /\ update' = NoUpdate /\ IsCommand(update.text)

\* request thread t of the web app finishes its update
WebHandles(t) == web_pc[t] = "member" /\ web_pc'[t] = "idle"

Denial(user) == [ chat |-> user, kind |-> "denied", handler |-> "none" ]

\* the polling bot: with the set empty the user of the first command is
\* registered and served; the set changes in no other way; an update of a
\* user outside the set gets the denial only, and leaves the slot and
\* _alert_chats as they are
BotAuthorization ==
    /\ AUTHORIZED_USERS' # AUTHORIZED_USERS =>
         /\ AUTHORIZED_USERS = {}
         /\ Cardinality(AUTHORIZED_USERS') = 1
    /\ (BotHandles /\ AUTHORIZED_USERS = {}) =>
         /\ AUTHORIZED_USERS' = {update.user}
         /\ sent'.chat = update.user
         /\ sent'.kind # "denied"
    /\ (BotHandles /\ AUTHORIZED_USERS # {} /\ update.user \notin AUTHORIZED_USERS) =>
         /\ sent' = Denial(update.user)
         /\ UNCHANGED << AUTHORIZED_USERS, _alert_chats, _cache >>

\* the same for the web app, which has no _alert_chats
WebAuthorization ==
    /\ FLASK_AUTHORIZED_USERS' # FLASK_AUTHORIZED_USERS =>
         /\ FLASK_AUTHORIZED_USERS = {}
         /\ Cardinality(FLASK_AUTHORIZED_USERS') = 1
    /\ \A t \in Callers :
         (WebHandles(t) /\ web_user[t] \notin FLASK_AUTHORIZED_USERS) =>
              /\ sent' = Denial(web_user[t])
              /\ UNCHANGED << FLASK_AUTHORIZED_USERS, _alert_chats, _cache >>

\* C26, as stated: when AUTHORIZED_USERS is empty at start-up the first user
\* who sends a command is registered and authorized; from then on the set
\* never grows; and every later update of a user outside the set gets only
\* the access-denied message from process_update and from the webhook: no
\* handler runs, the slot and _alert_chats stay as they are.
C26_Claim == [][BotAuthorization /\ WebAuthorization]_vars

\* the part of C26 about process_update of the polling bot alone
C26_PollingBot == [][BotAuthorization]_vars

\* the part of C26 about the denial in the webhook alone
C26_WebhookDenial ==
    [][\A t \in Callers :
         (WebHandles(t) /\ web_user[t] \notin FLASK_AUTHORIZED_USERS) =>
              /\ sent' = Denial(web_user[t])
              /\ UNCHANGED << FLASK_AUTHORIZED_USERS, _alert_chats, _cache >>
      ]_vars

\* the polling bot registered its first user, served commands that fetched
\* and turned alerts on, and denied another user
C26_WitnessPollingBot ==
    /\ Cardinality(AUTHORIZED_USERS) = 1
    /\ _alert_chats = AUTHORIZED_USERS
    /\ HasEntry(_cache)
    /\ sent.kind = "denied"
    /\ sent.chat \notin AUTHORIZED_USERS

\* the web app, started with an empty set, has two registered users
C26_TwoRegistered ==
    /\ Cardinality(FLASK_AUTHORIZED_USERS) >= 2
    /\ \E t \in Callers : web_pc[t] = "member"

====
